---- MODULE Spec2Model ----
(***************************************************************************)
(* Verification model of foldy-render: the render service (src/index.js),  *)
(* its SSRF guard, and the screenshot job worker (src/worker.js).          *)
(*                                                                         *)
(* Specifications:                                                         *)
(*   Spec        the /render request pipeline of src/index.js:1-976        *)
(*   SpecLegacy  the shared-browser manager of src/index.js:1072-1100      *)
(*   SpecGuard   assertUrlAllowed and the CIDR helpers                     *)
(*   SpecWorker  worker processes polling the job store (src/worker.js)    *)
(*   SpecWorkerLive  SpecWorker under fair scheduling of the workers' steps *)
(*   SpecValidate   the validation phase of /render                         *)
(*   SpecNormalize  one pass of the worker's loop over one lease answer     *)
(*   SpecGrid    rasterizeToGrid and foldCoveragePct                        *)
(*   SpecPage    overlay scan, hide and clean audit on one page             *)
(*   SpecTimeout calls of the generic watchdog withTimeout                   *)
(***************************************************************************)
EXTENDS Integers, Sequences, FiniteSets, TLC

(* ----------------------------- bounds ---------------------------------- *)
MaxMarked == 2      \* overlay candidates a scan can find on a page

\* two /render requests in flight at the same time
Reqs == {"reqA", "reqB"}

VARIABLES
  \* --- render service, src/index.js:1-976 ---
  proc,            \* process / server lifecycle
  browserPromise,  \* index.js:191  memoized launch promise
  launchCount,     \* number of chromium.launch() invocations
  engineLive,      \* the launched engine instance is connected
  sig,             \* SIGTERM handler position
  pc,              \* per request: position of the /render handler
  relaxed,         \* per request: index.js:794
  debugHeatmap,    \* per request: index.js:811
  context,         \* per request: the handler's `context` variable (index.js:817)
  ectx,            \* per request: the browsing context inside the engine
  scanLate,        \* per request: an overlay scan given up on timeout still runs in the page
  started,         \* per request: stages started so far, in order
  wdFired,         \* per request: stages given up because a watchdog fired
  pre,             \* per request: result of the overlay scan (index.js:861)
  scanOutcome,     \* per request: how the overlay scan stage ended: "ok", "timeout"
                   \* (its own deadline), "watchdog" (the outer WT), "error"
  resp             \* per request: the HTTP response, status 0 = none yet

VARIABLES
  \* --- shared browser of the second service listing, src/index.js:1072-1100 ---
  browser,         \* index.js:1072  the `browser` variable: 0 = null, else an instance id
  connected,       \* instances whose connection is up
  launched,        \* number of chromium.launch() invocations so far
  lpc,             \* per caller: position inside getBrowser
  launching,       \* per caller: the instance its own launch call will yield
  got              \* per caller: the instance getBrowser returned, 0 = none

legacyVars == <<browser, connected, launched, lpc, launching, got>>

VARIABLES
  \* --- SSRF guard, src/index.js:88-115 ---
  raw,             \* the submitted URL
  gpc,             \* position inside assertUrlAllowed
  v4,              \* index.js:101  addresses returned by dns.resolve4
  v6,              \* index.js:101  addresses returned by dns.resolve6
  verdict          \* 0 = undecided, 200 = returned u.toString(), else the thrown status

guardVars == <<raw, gpc, v4, v6, verdict>>

VARIABLES
  \* --- screenshot job store and workers, src/worker.js ---
  rows,            \* the screenshot_jobs table: id -> row
  leasedTo,        \* per row: workers the lease call handed the row to
  doneBy,          \* per row: workers whose update set status = done
  errorBy,         \* per row: workers whose update set status = error
  wpc,             \* per worker: position in main / processJob
  job,             \* per worker: the normalized job in hand (id 0 = none)
  wbrowser,        \* per worker: worker.js:58 `browser`: "null", "live" or "dead"
  jobsSinceLaunch, \* per worker: worker.js:59
  lastWait,        \* per worker: the sleep taken before the coming lease call
  bucket           \* the object store: keys of the uploaded screenshots

workerVars == <<rows, leasedTo, doneBy, errorBy, wpc, job, wbrowser, jobsSinceLaunch,
                lastWait, bucket>>

VARIABLES
  \* --- validation phase of one /render request, src/index.js:33-40, 784-843 ---
  vin,             \* the request: token, url and device as submitted
  vpc,             \* position in the middleware / handler
  vout,            \* HTTP status sent, 0 = none yet
  vused            \* engine resources the request asked for: "context", "navigation"

validateVars == <<vin, vpc, vout, vused>>

\* one pass of the worker's main loop over one answer of the lease call
VARIABLES
  ndata,      \* what the lease call returned
  npc,        \* "claim", "claimed", "sleep", "processJob", "goto"
  nout,       \* what claimNormalizedJob returned (NoJob for null)
  nctx        \* the options processJob created the browser context with
normalizeVars == <<ndata, npc, nout, nctx>>

\* the clean audit's coverage computation inside the page
VARIABLES
  allRects    \* the content rects collected so far ([x, y, w, h] in CSS px)
gridVars == <<allRects>>

\* one page going through overlay scan, hide and clean audit
VARIABLES
  dom,        \* the elements of the page: kind, position, rect, text, buttons
  tagged,     \* elements carrying data-foldy-overlay-candidate="1"
  styleAdded, \* the hide step's style tag is in the document
  ppc,        \* "loaded", "scanned", "hidden", "audited"
  clean,      \* what the clean audit returned
  marked      \* pre.overlayElemsMarked as the handler holds it after the scan
pageVars == <<dom, tagged, styleAdded, ppc, clean, marked>>

\* what the render service has written to the job store
VARIABLES
  enqueued    \* requests for which the service inserted a queued job row
storeVars == <<enqueued>>

\* calls of withTimeout(promise, ms, label), src/index.js:118-129
VARIABLES
  wt          \* per call: the promise passed in, the timer, the returned promise
timeoutVars == <<wt>>

renderVars == <<proc, browserPromise, launchCount, engineLive, sig, pc, relaxed,
                debugHeatmap, context, ectx, scanLate, started, wdFired, pre,
                scanOutcome, resp>>

vars == <<renderVars, legacyVars, guardVars, workerVars, validateVars, normalizeVars, gridVars, pageVars, storeVars, timeoutVars>>

nonRender == <<legacyVars, guardVars, workerVars, validateVars, normalizeVars, gridVars, pageVars, storeVars, timeoutVars>>
nonLegacy == <<renderVars, guardVars, workerVars, validateVars, normalizeVars, gridVars, pageVars, storeVars, timeoutVars>>
nonGuard == <<renderVars, legacyVars, workerVars, validateVars, normalizeVars, gridVars, pageVars, storeVars, timeoutVars>>
nonWorker == <<renderVars, legacyVars, guardVars, validateVars, normalizeVars, gridVars, pageVars, storeVars, timeoutVars>>
nonValidate == <<renderVars, legacyVars, guardVars, workerVars, normalizeVars, gridVars, pageVars, storeVars, timeoutVars>>
nonNormalize == <<renderVars, legacyVars, guardVars, workerVars, validateVars, gridVars, pageVars, storeVars, timeoutVars>>
nonGrid == <<renderVars, legacyVars, guardVars, workerVars, validateVars, normalizeVars, pageVars, storeVars, timeoutVars>>
nonPage == <<renderVars, legacyVars, guardVars, workerVars, validateVars, normalizeVars, gridVars, storeVars, timeoutVars>>
nonTimeout == <<renderVars, legacyVars, guardVars, workerVars, validateVars, normalizeVars, gridVars, pageVars, storeVars>>

(* ------------------------ render service ------------------------------- *)
\* index.js:1-976 contains no call that writes to a job store: the service
\* starts with nothing enqueued and no action below changes that
StoreIdle == enqueued = {}


\* mutant of PreZero: the soft-fail value forgets the degradation flag
PreZeroUnflagged(flag) ==
  [overlayRects |-> 0, overlayElemsMarked |-> 0, overlayCoveragePct |-> 0,
   overlayBlockers |-> 0, _preHideTimedOut |-> FALSE]

\* index.js:861  default value of `pre`, and the zeroed soft-fail value (index.js:315)
PreZero(flag) ==
  [overlayRects |-> 0, overlayElemsMarked |-> 0, overlayCoveragePct |-> 0,
   overlayBlockers |-> 0, _preHideTimedOut |-> flag]

Min(a, b) == IF a < b THEN a ELSE b

\* index.js:304-309  what a completed scan returns for n tagged candidates,
\* each covering 40% of the fold (overlayCoveragePct is capped at 100)
ScanResult(n) ==
  [overlayRects |-> n, overlayElemsMarked |-> n,
   overlayCoveragePct |-> Min(100, n * 40),
   overlayBlockers |-> IF n > 0 THEN 1 ELSE 0, _preHideTimedOut |-> FALSE]

NoResp == [status |-> 0, error |-> "", overlayCoveragePct |-> 0, overlayBlockers |-> 0,
           overlayElemsMarked |-> 0, overlayRects |-> 0, preHideTimedOut |-> FALSE,
           pngDebugBase64 |-> FALSE]

\* index.js:953  the error body: res.status(status).json({ error })
ErrResp(st, msg) == [NoResp EXCEPT !.status = st, !.error = msg]

\* mutant of CatchStatus: the catch ignores err.status
CatchStatusAlways500(errStatus) == IF errStatus = 0 THEN 500 ELSE 500

\* index.js:952  catch: status = err?.status || 500 (0 stands for no .status)
CatchStatus(errStatus) == IF errStatus = 0 THEN 500 ELSE errStatus

\* index.js:906-950  success payload
Payload(p, hm) ==
  [status |-> 200, error |-> "", overlayCoveragePct |-> p.overlayCoveragePct,
   overlayBlockers |-> p.overlayBlockers, overlayElemsMarked |-> p.overlayElemsMarked,
   overlayRects |-> p.overlayRects, preHideTimedOut |-> (p._preHideTimedOut = TRUE),
   pngDebugBase64 |-> hm]

\* index.js:823-895  the awaited stages of the handler, in program order
Pipeline == <<"launch", "newContext", "newPage", "goto", "preHide", "hide",
              "cleanAudit", "fonts", "shot", "heatmap">>

Stages == {Pipeline[i] : i \in 1..Len(Pipeline)}

\* index.js:798  stages wrapped in WT(...); the font settle at :883 is not
Watchdogged == Stages \ {"fonts"}

StageIndex(s) == CHOOSE i \in 1..Len(Pipeline) : Pipeline[i] = s

\* mutant of NextStage: the overlays are hidden before they are scanned
NextStageHideFirst(s, hm) ==
  IF s = "shot" THEN (IF hm THEN "heatmap" ELSE "respond")
  ELSE IF s = "heatmap" THEN "respond"
  ELSE IF s = "goto" THEN "hide"
  ELSE Pipeline[StageIndex(s) + 1]

\* the stage the handler starts after s has settled; "respond" ends the pipeline
NextStage(s, hm) ==
  IF s = "shot" THEN (IF hm THEN "heatmap" ELSE "respond")
  ELSE IF s = "heatmap" THEN "respond"
  ELSE Pipeline[StageIndex(s) + 1]

\* index.js:192-205  getBrowser: launch only when nothing is memoized
getBrowser(bp) == IF bp = "null" THEN "pending" ELSE bp
getBrowserLaunches(bp) == IF bp = "null" THEN 1 ELSE 0

RenderInit ==
  /\ proc = "booting"
  /\ browserPromise = "pending"          \* index.js:963 boot calls getBrowser()
  /\ launchCount = 1
  /\ engineLive = FALSE
  /\ sig = "none"
  /\ pc = [r \in Reqs |-> "idle"]
  /\ relaxed = [r \in Reqs |-> FALSE]
  /\ debugHeatmap = [r \in Reqs |-> FALSE]
  /\ context = [r \in Reqs |-> "null"]
  /\ ectx = [r \in Reqs |-> "none"]
  /\ scanLate = [r \in Reqs |-> FALSE]
  /\ started = [r \in Reqs |-> <<>>]
  /\ wdFired = [r \in Reqs |-> {}]
  /\ pre = [r \in Reqs |-> PreZero(FALSE)]
  /\ scanOutcome = [r \in Reqs |-> "none"]
  /\ resp = [r \in Reqs |-> NoResp]

\* index.js:963-966  the boot launch resolves and the server starts listening;
\* a SIGTERM handler already awaiting the launch (index.js:973) then closes the
\* browser and the server in the same turn of the event loop
LaunchResolve ==
  /\ browserPromise = "pending"
  /\ browserPromise' = "fulfilled"
  /\ IF sig = "waiting"
       THEN engineLive' = FALSE /\ proc' = "closing" /\ sig' = "done"
       ELSE engineLive' = TRUE /\ proc' = "listening" /\ sig' = sig
  /\ UNCHANGED <<launchCount, pc, relaxed, debugHeatmap, context, ectx,
                 scanLate, started, wdFired, pre, resp,
                 scanOutcome>>
  /\ UNCHANGED nonRender

\* index.js:967-970  the boot launch fails: process.exit(1)
LaunchReject ==
  /\ browserPromise = "pending"
  /\ browserPromise' = "rejected"
  /\ proc' = "exited"
  /\ UNCHANGED <<launchCount, engineLive, sig, pc, relaxed, debugHeatmap, context,
                 ectx, scanLate, started, wdFired, pre, resp,
                 scanOutcome>>
  /\ UNCHANGED nonRender

\* the engine process crashes or its connection drops; its contexts and the
\* scripts running in their pages die with it
Disconnect ==
  /\ engineLive
  /\ proc # "exited"
  /\ engineLive' = FALSE
  /\ ectx' = [r \in Reqs |-> IF ectx[r] = "open" THEN "closed" ELSE ectx[r]]
  /\ scanLate' = [r \in Reqs |-> FALSE]
  /\ UNCHANGED <<proc, browserPromise, launchCount, sig, pc, relaxed, debugHeatmap,
                 context, started, wdFired, pre, resp,
                 scanOutcome>>
  /\ UNCHANGED nonRender

\* index.js:972-973  SIGTERM during boot: the handler calls getBrowser() and
\* awaits the launch that is still in flight
Sigterm ==
  /\ sig = "none"
  /\ proc # "exited"
  /\ getBrowser(browserPromise) = "pending"
  /\ sig' = "waiting"
  /\ browserPromise' = getBrowser(browserPromise)
  /\ launchCount' = launchCount + getBrowserLaunches(browserPromise)
  /\ UNCHANGED <<proc, engineLive, pc, relaxed, debugHeatmap, context, ectx,
                 scanLate, started, wdFired, pre, resp,
                 scanOutcome>>
  /\ UNCHANGED nonRender

\* index.js:972-974  SIGTERM once the launch is settled: getBrowser() returns the
\* memoized instance, browser.close(), then server.close()
SigtermClose ==
  /\ sig = "none"
  /\ browserPromise = "fulfilled"
  /\ proc # "exited"
  /\ sig' = "done"
  /\ engineLive' = FALSE
  /\ ectx' = [r \in Reqs |-> IF ectx[r] = "open" THEN "closed" ELSE ectx[r]]
  /\ proc' = "closing"
  /\ scanLate' = [r \in Reqs |-> FALSE]
  /\ UNCHANGED <<browserPromise, launchCount, pc, relaxed, debugHeatmap, context,
                 started, wdFired, pre, resp,
                 scanOutcome>>
  /\ UNCHANGED nonRender

\* index.js:974  server.close callback: exit once no request is in flight
ProcExit ==
  /\ proc = "closing"
  /\ \A r \in Reqs : pc[r] \in {"idle", "done"}
  /\ proc' = "exited"
  /\ UNCHANGED <<browserPromise, launchCount, engineLive, sig, pc, relaxed,
                 debugHeatmap, context, ectx, scanLate, started, wdFired, pre, resp,
                 scanOutcome>>
  /\ UNCHANGED nonRender

\* index.js:33-40, 813-821  a request refused before any engine resource is used:
\* 401 (auth), 400 (missing field, malformed URL, unknown device), 422 (blocked URL)
Rejections ==
  {<<401, "Unauthorized">>, <<400, "Missing url or device">>, <<400, "Invalid URL">>,
   <<422, "blocked">>, <<400, "Invalid device">>}

ReqReject(r) ==
  /\ proc = "listening"
  /\ pc[r] = "idle"
  /\ \E rj \in Rejections : resp' = [resp EXCEPT ![r] = ErrResp(rj[1], rj[2])]
  /\ pc' = [pc EXCEPT ![r] = "done"]
  /\ UNCHANGED <<proc, browserPromise, launchCount, engineLive, sig, relaxed,
                 debugHeatmap, context, ectx, scanLate, started, wdFired, pre,
                 scanOutcome>>
  /\ UNCHANGED nonRender

\* index.js:784-823  a valid request passes the guard and calls getBrowser()
ReqAccept(r) ==
  /\ proc = "listening"
  /\ pc[r] = "idle"
  /\ \E rel \in BOOLEAN, hm \in BOOLEAN :
       /\ relaxed' = [relaxed EXCEPT ![r] = rel]
       /\ debugHeatmap' = [debugHeatmap EXCEPT ![r] = hm]
  /\ browserPromise' = getBrowser(browserPromise)
  /\ launchCount' = launchCount + getBrowserLaunches(browserPromise)
  /\ pc' = [pc EXCEPT ![r] = "launch"]
  /\ started' = [started EXCEPT ![r] = <<"launch">>]
  /\ UNCHANGED <<proc, engineLive, sig, context, ectx, scanLate, wdFired, pre, resp,
                 scanOutcome>>
  /\ UNCHANGED nonRender

\* the engine can complete the call the handler is awaiting
CanComplete(r, s) ==
  CASE s = "launch" -> browserPromise = "fulfilled"
    [] s = "newContext" -> engineLive /\ ectx[r] = "creating"
    [] s = "heatmap" -> FALSE     \* index.js:775 reads `relaxed`, not in scope there
    [] OTHER -> engineLive /\ ectx[r] = "open"

\* index.js:823-895  the awaited call settles with a value; the handler goes on
StageDone(r) ==
  LET s == pc[r]
      n == NextStage(s, debugHeatmap[r]) IN
  /\ s \in Stages \ {"preHide"}
  /\ CanComplete(r, s)
  /\ ectx' = [ectx EXCEPT ![r] =
                 IF s = "launch" THEN "creating"          \* index.js:825
                 ELSE IF s = "newContext" THEN "open" ELSE @]
  /\ context' = [context EXCEPT ![r] = IF s = "newContext" THEN "set" ELSE @]
  /\ IF n = "respond"
       THEN /\ resp' = [resp EXCEPT ![r] = Payload(pre[r], FALSE)]   \* index.js:950
            /\ pc' = [pc EXCEPT ![r] = "finally"]
            /\ started' = started
       ELSE /\ pc' = [pc EXCEPT ![r] = n]
            /\ started' = [started EXCEPT ![r] = Append(@, n)]
            /\ resp' = resp
  /\ UNCHANGED <<proc, browserPromise, launchCount, engineLive, sig, relaxed,
                 debugHeatmap, scanLate, wdFired, pre,
                 scanOutcome>>
  /\ UNCHANGED nonRender

\* the awaited call rejects with its own error (no .status): catch -> 500
StageFail(r) ==
  LET s == pc[r] IN
  /\ s \in Stages \ {"preHide"}
  /\ s = "launch" => browserPromise = "rejected"
  /\ ectx' = [ectx EXCEPT ![r] = IF s = "newContext" THEN "none" ELSE @]
  /\ resp' = [resp EXCEPT ![r] = ErrResp(CatchStatus(0), "engine error")]
  /\ pc' = [pc EXCEPT ![r] = "finally"]
  /\ UNCHANGED <<proc, browserPromise, launchCount, engineLive, sig, relaxed,
                 debugHeatmap, context, scanLate, started, wdFired, pre,
                 scanOutcome>>
  /\ UNCHANGED nonRender

\* index.js:729-778, 891-895  heatmapPng: both page.evaluate calls settle, then
\* the argument `timeout: relaxed ? 0 : ...` of page.screenshot (775) reads
\* `relaxed`, a const of the handler (794) that is not in scope in PAGE_EVAL:
\* a ReferenceError, not caught around the call at 893-895, so catch -> 500
HeatmapThrows(r) ==
  /\ pc[r] = "heatmap"
  /\ engineLive /\ ectx[r] = "open"
  /\ resp' = [resp EXCEPT ![r] = ErrResp(CatchStatus(0), "relaxed is not defined")]
  /\ pc' = [pc EXCEPT ![r] = "finally"]
  /\ UNCHANGED <<proc, browserPromise, launchCount, engineLive, sig, relaxed,
                 debugHeatmap, context, ectx, scanLate, started, wdFired, pre,
                 scanOutcome>>
  /\ UNCHANGED nonRender

\* index.js:798  WT: the watchdog applies unless the request is relaxed
WT(rel, s) == ~rel /\ s \in Watchdogged

\* index.js:119-129  the watchdog of a hard stage fires while its call is pending:
\* the call is abandoned (it keeps running) and the handler's catch answers 504
Watchdog(r) ==
  LET s == pc[r] IN
  /\ s \in Stages \ {"preHide"}
  /\ WT(relaxed[r], s)
  /\ s = "launch" => browserPromise = "pending"
  /\ wdFired' = [wdFired EXCEPT ![r] = @ \cup {s}]
  /\ resp' = [resp EXCEPT ![r] = ErrResp(CatchStatus(504), "timeout")]
  /\ pc' = [pc EXCEPT ![r] = "finally"]
  /\ UNCHANGED <<proc, browserPromise, launchCount, engineLive, sig, relaxed,
                 debugHeatmap, context, ectx, scanLate, started, pre,
                 scanOutcome>>
  /\ UNCHANGED nonRender

\* index.js:255-311, 863  the scan completes in time and tags n candidates
PreHideDone(r) ==
  /\ pc[r] = "preHide"
  /\ engineLive /\ ectx[r] = "open"
  /\ \E n \in 0..MaxMarked : pre' = [pre EXCEPT ![r] = ScanResult(n)]
  /\ scanOutcome' = [scanOutcome EXCEPT ![r] = "ok"]
  /\ pc' = [pc EXCEPT ![r] = "hide"]
  /\ started' = [started EXCEPT ![r] = Append(@, "hide")]
  /\ UNCHANGED <<proc, browserPromise, launchCount, engineLive, sig, relaxed,
                 debugHeatmap, context, ectx, scanLate, wdFired, resp>>
  /\ UNCHANGED nonRender

\* index.js:249-252, 312-316  the scan's own deadline (not relaxed-aware) fires:
\* zeroed result, flag set, the page.evaluate call keeps running
PreHideInnerTimeout(r) ==
  /\ pc[r] = "preHide"
  /\ pre' = [pre EXCEPT ![r] = PreZero(TRUE)]
  /\ scanLate' = [scanLate EXCEPT ![r] = engineLive /\ ectx[r] = "open"]
  /\ wdFired' = [wdFired EXCEPT ![r] = @ \cup {"preHide"}]
  /\ scanOutcome' = [scanOutcome EXCEPT ![r] = "timeout"]
  /\ pc' = [pc EXCEPT ![r] = "hide"]
  /\ started' = [started EXCEPT ![r] = Append(@, "hide")]
  /\ UNCHANGED <<proc, browserPromise, launchCount, engineLive, sig, relaxed,
                 debugHeatmap, context, ectx, resp>>
  /\ UNCHANGED nonRender

\* index.js:862-867  the outer WT fires first: the catch flags the default `pre`
PreHideOuterTimeout(r) ==
  /\ pc[r] = "preHide"
  /\ WT(relaxed[r], "preHide")
  /\ pre' = [pre EXCEPT ![r] = [PreZero(FALSE) EXCEPT !._preHideTimedOut = TRUE]]
  /\ scanLate' = [scanLate EXCEPT ![r] = engineLive /\ ectx[r] = "open"]
  /\ wdFired' = [wdFired EXCEPT ![r] = @ \cup {"preHide"}]
  /\ scanOutcome' = [scanOutcome EXCEPT ![r] = "watchdog"]
  /\ pc' = [pc EXCEPT ![r] = "hide"]
  /\ started' = [started EXCEPT ![r] = Append(@, "hide")]
  /\ UNCHANGED <<proc, browserPromise, launchCount, engineLive, sig, relaxed,
                 debugHeatmap, context, ectx, resp>>
  /\ UNCHANGED nonRender

\* index.js:317, 864-867  a real evaluation error bubbles out of preHideOverlays
\* and is absorbed by the handler's catch, which sets the flag
PreHideError(r) ==
  /\ pc[r] = "preHide"
  /\ pre' = [pre EXCEPT ![r] = [PreZero(FALSE) EXCEPT !._preHideTimedOut = TRUE]]
  /\ scanOutcome' = [scanOutcome EXCEPT ![r] = "error"]
  /\ pc' = [pc EXCEPT ![r] = "hide"]
  /\ started' = [started EXCEPT ![r] = Append(@, "hide")]
  /\ UNCHANGED <<proc, browserPromise, launchCount, engineLive, sig, relaxed,
                 debugHeatmap, context, ectx, scanLate, wdFired, resp>>
  /\ UNCHANGED nonRender

\* index.js:824-828  a browser.newContext() call given up by its watchdog settles
\* later: it can still produce a context that no handler variable refers to
LateNewContext(r) ==
  /\ pc[r] \in {"finally", "done"}
  /\ ectx[r] = "creating"
  /\ \E e \in (IF engineLive THEN {"open", "none"} ELSE {"none"}) :
       ectx' = [ectx EXCEPT ![r] = e]
  /\ UNCHANGED <<proc, browserPromise, launchCount, engineLive, sig, pc, relaxed,
                 debugHeatmap, context, scanLate, started, wdFired, pre, resp,
                 scanOutcome>>
  /\ UNCHANGED nonRender

\* index.js:255-310  a page.evaluate scan given up on timeout finishes in the page
LateScan(r) ==
  /\ scanLate[r]
  /\ scanLate' = [scanLate EXCEPT ![r] = FALSE]
  /\ UNCHANGED <<proc, browserPromise, launchCount, engineLive, sig, pc, relaxed,
                 debugHeatmap, context, ectx, started, wdFired, pre, resp,
                 scanOutcome>>
  /\ UNCHANGED nonRender

\* index.js:955-958  finally: close the page and the context the handler holds;
\* the handler returns and its locals are gone, the response stays with the client
Finally(r) ==
  /\ pc[r] = "finally"
  /\ ectx' = [ectx EXCEPT ![r] = IF context[r] = "set" THEN "closed" ELSE @]
  /\ pc' = [pc EXCEPT ![r] = "done"]
  /\ relaxed' = [relaxed EXCEPT ![r] = FALSE]
  /\ debugHeatmap' = [debugHeatmap EXCEPT ![r] = FALSE]
  /\ context' = [context EXCEPT ![r] = "null"]
  /\ pre' = [pre EXCEPT ![r] = PreZero(FALSE)]
  /\ started' = [started EXCEPT ![r] = <<>>]
  /\ wdFired' = [wdFired EXCEPT ![r] = {}]
  /\ scanOutcome' = [scanOutcome EXCEPT ![r] = "none"]
  /\ scanLate' = [scanLate EXCEPT ![r] = FALSE]      \* page.close() ends the scan
  /\ UNCHANGED <<proc, browserPromise, launchCount, engineLive, sig, resp>>
  /\ UNCHANGED nonRender


(* --------- shared browser, second listing (src/index.js:1072-1100) ------- *)

MaxLaunches == 3    \* launches the engine host can perform

\* index.js:1092-1100 GET /health and index.js:1250-1263 POST /render both call getBrowser
Callers == {"health", "renderA", "renderB"}

LegacyInit ==
  /\ browser = 0
  /\ connected = {}
  /\ launched = 0
  /\ lpc = [c \in Callers |-> "idle"]
  /\ launching = [c \in Callers |-> 0]
  /\ got = [c \in Callers |-> 0]

\* index.js:1075  if (browser && browser.isConnected()) return browser;
GetBrowserHit(c) ==
  /\ lpc[c] = "idle"
  /\ browser # 0 /\ browser \in connected
  /\ got' = [got EXCEPT ![c] = browser]
  /\ lpc' = [lpc EXCEPT ![c] = "got"]
  /\ UNCHANGED <<browser, connected, launched, launching>>
  /\ UNCHANGED nonLegacy

\* index.js:1075-1077  nothing usable is stored: chromium.launch() is invoked and
\* awaited; `browser` is assigned only when the launch resolves.  (The branch
\* :1076 needs a stored instance that is disconnected; the handler of :1087
\* clears the variable on disconnect, so the variable is null here.)
GetBrowserLaunch(c) ==
  /\ lpc[c] = "idle"
  /\ ~(browser # 0 /\ browser \in connected)
  /\ launched < MaxLaunches
  /\ launched' = launched + 1
  /\ launching' = [launching EXCEPT ![c] = launched + 1]
  /\ lpc' = [lpc EXCEPT ![c] = "launching"]
  /\ got' = [got EXCEPT ![c] = 0]
  /\ UNCHANGED <<browser, connected>>
  /\ UNCHANGED nonLegacy

\* index.js:1077-1088  the launch resolves: assign, register the handler, return
LegacyLaunchResolve(c) ==
  /\ lpc[c] = "launching"
  /\ browser' = launching[c]
  /\ connected' = connected \cup {launching[c]}
  /\ got' = [got EXCEPT ![c] = launching[c]]
  /\ lpc' = [lpc EXCEPT ![c] = "got"]
  /\ UNCHANGED <<launched, launching>>
  /\ UNCHANGED nonLegacy

\* index.js:1077  the launch rejects: getBrowser throws to its caller
LegacyLaunchReject(c) ==
  /\ lpc[c] = "launching"
  /\ lpc' = [lpc EXCEPT ![c] = "idle"]
  /\ launching' = [launching EXCEPT ![c] = 0]
  /\ UNCHANGED <<browser, connected, launched, got>>
  /\ UNCHANGED nonLegacy

\* index.js:1087  an instance disconnects: its handler sets `browser = null`,
\* whichever instance the variable refers to at that moment
LegacyDisconnect(k) ==
  /\ k \in connected
  /\ connected' = connected \ {k}
  /\ browser' = 0
  /\ UNCHANGED <<launched, lpc, launching, got>>
  /\ UNCHANGED nonLegacy

\* the caller is done with the instance it was given; it may call again later
CallerReturn(c) ==
  /\ lpc[c] = "got"
  /\ lpc' = [lpc EXCEPT ![c] = "idle"]
  /\ got' = [got EXCEPT ![c] = 0]
  /\ launching' = [launching EXCEPT ![c] = 0]
  /\ UNCHANGED <<browser, connected, launched>>
  /\ UNCHANGED nonLegacy


(* ----------------------- SSRF guard (src/index.js:42-115) ---------------- *)

MaxAnswers == 1     \* addresses in one DNS answer

RECURSIVE Pow2(_)
Pow2(n) == IF n = 0 THEN 1 ELSE 2 * Pow2(n - 1)

\* index.js:52-53  ipV4ToBuf + bufToInt: four octets or-ed into a signed 32-bit
\* int; b[0] << 24 is negative when the first octet is 128 or more
bufToInt(b) ==
  (IF b[1] >= 128 THEN b[1] - 256 ELSE b[1]) * Pow2(24)
    + b[2] * Pow2(16) + b[3] * Pow2(8) + b[4]

\* index.js:60  mask = ~((1 << (32 - bits)) - 1); the shift count is taken mod 32
\* and x & mask clears the low bits of the two's-complement value
AndMask(x, bits) == LET low == Pow2((32 - bits) % 32) IN x - (x % low)

\* index.js:54-62  ipInCidr(ip, cidr), cidr = <<range, bits>>
ipInCidr(ip, cidr) == AndMask(bufToInt(ip), cidr[2]) = AndMask(bufToInt(cidr[1]), cidr[2])

\* index.js:43-50
PRIVATE_CIDRS ==
  {<< <<127, 0, 0, 0>>, 8 >>, << <<10, 0, 0, 0>>, 8 >>, << <<172, 16, 0, 0>>, 12 >>,
   << <<192, 168, 0, 0>>, 16 >>, << <<0, 0, 0, 0>>, 8 >>, << <<169, 254, 0, 0>>, 16 >>}

\* An IPv6 address as text: the blocks between ':' signs, each a sequence of hex
\* digits (empty for the gap of "::").  "fe80::1" is <<fe80, <<>>, <<1>>>>.
\* index.js:75  padStart(4, "0")
padStart4(blk) == IF Len(blk) >= 4 THEN blk ELSE [i \in 1..(4 - Len(blk)) |-> 0] \o blk

\* parseInt(text, 16)
RECURSIVE parseHex(_)
parseHex(blk) == IF blk = <<>> THEN 0
                 ELSE 16 * parseHex(SubSeq(blk, 1, Len(blk) - 1)) + blk[Len(blk)]

\* index.js:80-81  parseInt(blocks[i], 16) >>> (16 - take); a missing block parses
\* to NaN, which >>> turns into 0
BlockPart(blocks, i, take) ==
  IF i > Len(blocks) THEN 0 ELSE parseHex(padStart4(blocks[i])) \div Pow2(16 - take)

RECURSIVE Cidr6From(_, _, _, _)
\* index.js:78-85  the loop of ipInCidr6 from block i with bitsLeft bits to compare
Cidr6From(ip, base, i, bitsLeft) ==
  IF i > 8 \/ bitsLeft <= 0 THEN TRUE
  ELSE LET take == Min(16, bitsLeft) IN
       IF BlockPart(ip, i, take) # BlockPart(base, i, take) THEN FALSE
       ELSE Cidr6From(ip, base, i + 1, bitsLeft - take)

\* index.js:71-86  ipInCidr6(ip, cidr), cidr = <<base, bits>>
ipInCidr6(ip, cidr) == Cidr6From(ip, cidr[1], 1, cidr[2])

V6Loopback == << <<>>, <<>>, <<1>> >>                       \* "::1"

\* index.js:65-69
PRIVATE_V6 ==
  {<< V6Loopback, 128 >>,
   << << <<15, 12, 0, 0>>, <<>>, <<>> >>, 7 >>,             \* "fc00::" / 7
   << << <<15, 14, 8, 0>>, <<>>, <<>> >>, 10 >>}            \* "fe80::" / 10

\* addresses the model submits as literals and returns from DNS
V4Samples ==
  {<<127, 0, 0, 1>>, <<10, 0, 0, 1>>, <<172, 16, 0, 1>>, <<172, 31, 255, 254>>,
   <<172, 32, 0, 1>>, <<192, 168, 0, 1>>, <<192, 169, 0, 1>>, <<8, 8, 8, 8>>}

V6Samples ==
  {V6Loopback,
   << <<15, 14, 8, 0>>, <<>>, <<1>> >>,                     \* fe80::1
   << <<15, 14, 11, 15>>, <<>>, <<1>> >>,                   \* febf::1
   << <<15, 14, 12, 0>>, <<>>, <<1>> >>,                    \* fec0::1
   << <<15, 12, 0, 0>>, <<>>, <<1>> >>,                     \* fc00::1
   << <<15, 13, 1, 2>>, <<3, 4, 5, 6>>, <<>>, <<1>> >>,     \* fd12:3456::1
   << <<2, 0, 0, 1>>, <<13, 11, 8>>, <<>>, <<1>> >>}        \* 2001:db8::1

Names == {"localhost", "example.com", "intranet.corp"}

\* submitted URLs: a string that does not parse, or scheme://host/ with the host
\* written as a name, a dotted IPv4 literal or a bracketed IPv6 literal
Urls ==
  {[parses |-> FALSE, scheme |-> "", kind |-> "", host |-> <<>>]} \cup
  {[parses |-> TRUE, scheme |-> sc, kind |-> "name", host |-> n] :
      sc \in {"http:", "https:", "ftp:"}, n \in Names} \cup
  {[parses |-> TRUE, scheme |-> sc, kind |-> "v4", host |-> a] :
      sc \in {"http:", "ftp:"}, a \in V4Samples} \cup
  {[parses |-> TRUE, scheme |-> sc, kind |-> "v6", host |-> a] :
      sc \in {"http:", "ftp:"}, a \in V6Samples}

\* URL.hostname as the WHATWG parser returns it: a name in lower case, an IPv4
\* literal in dotted form, an IPv6 literal inside square brackets
hostname(u) ==
  IF u.kind = "v6" THEN [text |-> "bracketed-v6", addr |-> u.host]
  ELSE IF u.kind = "v4" THEN [text |-> "dotted-v4", addr |-> u.host]
  ELSE [text |-> "name", addr |-> u.host]

\* index.js:97  host === "localhost" || host === "127.0.0.1" || host === "::1";
\* "::1" is the bare text, which is not what hostname() yields for http://[::1]/
isLoopbackName(h) ==
  \/ h = [text |-> "name", addr |-> "localhost"]
  \/ h = [text |-> "dotted-v4", addr |-> <<127, 0, 0, 1>>]
  \/ h = [text |-> "bare-v6", addr |-> V6Loopback]

\* sequences over S of length at most n
SeqsUpTo(S, n) == UNION {[1..k -> S] : k \in 0..n}

\* what dns.resolve4(host) can deliver within DNS_TIMEOUT_MS; <<>> stands for an
\* error or a timeout, both swallowed at index.js:102.  A name resolves to what
\* its zone says; querying a dotted literal as a name fails on most resolvers
\* and echoes the address on others; a bracketed literal is no DNS name.
Resolve4(h) ==
  CASE h.text = "name" -> SeqsUpTo(V4Samples, MaxAnswers)
    [] h.text = "dotted-v4" -> {<<>>, <<h.addr>>}
    [] OTHER -> {<<>>}

\* index.js:103  dns.resolve6(host)
Resolve6(h) ==
  CASE h.text = "name" -> SeqsUpTo(V6Samples, MaxAnswers)
    [] OTHER -> {<<>>}

\* mutant of blockedV4: the IPv4 range check is skipped
blockedV4Skipped(ips) == FALSE

\* index.js:105-106
blockedV4(ips) ==
  \E i \in 1..Len(ips) : \E cidr \in PRIVATE_CIDRS : ipInCidr(ips[i], cidr)

\* index.js:108-112
blockedV6(ips) ==
  \E i \in 1..Len(ips) :
    \/ ips[i] = V6Loopback
    \/ \E cidr \in PRIVATE_V6 : ipInCidr6(ips[i], cidr)

GuardInit ==
  /\ raw \in Urls
  /\ gpc = "start"
  /\ v4 = <<>>
  /\ v6 = <<>>
  /\ verdict = 0

GuardIdle ==
  /\ raw = [parses |-> FALSE, scheme |-> "", kind |-> "", host |-> <<>>]
  /\ gpc = "start"
  /\ v4 = <<>>
  /\ v6 = <<>>
  /\ verdict = 0

\* index.js:89-102  parse, scheme check, loopback-name check, then resolve4 is issued
assertUrlAllowed_Sync ==
  /\ gpc = "start"
  /\ IF ~raw.parses THEN verdict' = 400 /\ gpc' = "done"
     ELSE IF raw.scheme \notin {"http:", "https:"} THEN verdict' = 422 /\ gpc' = "done"
     ELSE IF isLoopbackName(hostname(raw)) THEN verdict' = 422 /\ gpc' = "done"
     ELSE verdict' = 0 /\ gpc' = "resolve4"
  /\ UNCHANGED <<raw, v4, v6>>
  /\ UNCHANGED nonGuard

\* index.js:102  the A lookup settles (an error leaves v4 empty)
assertUrlAllowed_A ==
  /\ gpc = "resolve4"
  /\ v4' \in Resolve4(hostname(raw))
  /\ gpc' = "resolve6"
  /\ UNCHANGED <<raw, v6, verdict>>
  /\ UNCHANGED nonGuard

\* index.js:103-114  the AAAA lookup settles, then the range checks decide
assertUrlAllowed_AAAA ==
  /\ gpc = "resolve6"
  /\ v6' \in Resolve6(hostname(raw))
  /\ verdict' = IF blockedV4(v4) \/ blockedV6(v6') THEN 422 ELSE 200
  /\ gpc' = "done"
  /\ UNCHANGED <<raw, v4>>
  /\ UNCHANGED nonGuard


(* ------------- fold coverage grid (src/index.js:329-335, 610-692) -------- *)
MaxRects == 3      \* content rects collected on one page

GRID_ROWS == 24
GRID_COLS == 40

\* index.js:329  window.innerWidth / innerHeight of the emulated device
VW == 400
VH == 800

Max(a, b) == IF a > b THEN a ELSE b

\* Math.floor(a / b) and Math.ceil(a / b) for b > 0
Floor(a, b) == a \div b
Ceil(a, b) == -((-a) \div b)

\* index.js:335, 614  Math.floor(y / cellH) in IEEE-754 doubles.  cellW =
\* 400 / 40 = 10 is exact, so is every x / cellW on a grid line.  cellH =
\* 800 / 24 is rounded up to 33.333333333333336; for the integer coordinates on
\* a grid line (multiples of 100) the quotient is the line's number except for
\* y = 500, where 500 / cellH evaluates to 14.999999999999998 and floors to 14.
\* Math.ceil of the same quotient is 15, the exact value.
FloorRow(y) ==
  IF y * GRID_ROWS = 15 * VH THEN 14 ELSE Floor(y * GRID_ROWS, VH)

\* mutant of GridCells: the loops run to x1 and y1 without the Math.min clamp
GridCellsUnclamped(r) ==
  LET x0 == Floor(r.x * GRID_COLS, VW)
      y0 == FloorRow(r.y)
      x1 == Ceil((r.x + r.w) * GRID_COLS, VW)
      y1 == Ceil((r.y + r.h) * GRID_ROWS, VH) IN
  {gy * GRID_COLS + gx : gy \in Max(0, y0)..(y1 - 1), gx \in Max(0, x0)..(x1 - 1)}

\* index.js:612-621  the cells one rect adds; x / cellW with cellW = vw / GRID_COLS
\* is x * GRID_COLS / vw
GridCells(r) ==
  LET x0 == Floor(r.x * GRID_COLS, VW)
      y0 == FloorRow(r.y)
      x1 == Ceil((r.x + r.w) * GRID_COLS, VW)
      y1 == Ceil((r.y + r.h) * GRID_ROWS, VH) IN
  {gy * GRID_COLS + gx : gy \in Max(0, y0)..(Min(GRID_ROWS, y1) - 1),
                         gx \in Max(0, x0)..(Min(GRID_COLS, x1) - 1)}

\* index.js:610-624  rasterizeToGrid: the set of covered cell indexes
rasterizeToGrid(rects) == UNION {GridCells(r) : r \in rects}

\* Math.round(n / d * 100) for n >= 0, d > 0
RoundPct(n, d) == (200 * n + d) \div (2 * d)

\* index.js:689-692
foldCoveragePct(rects) == RoundPct(Cardinality(rasterizeToGrid(rects)), GRID_ROWS * GRID_COLS)

\* rects a page can produce: inside the viewport, across its edges, outside it,
\* inside one cell, empty
RectSamples ==
  { [x |-> 0, y |-> 0, w |-> VW, h |-> VH],
    [x |-> 0, y |-> 0, w |-> 3, h |-> 3],
    [x |-> -10, y |-> -10, w |-> 15, h |-> 15],
    [x |-> VW - 10, y |-> VH - 8, w |-> 30, h |-> 30],
    [x |-> VW + 20, y |-> 10, w |-> 20, h |-> 20],
    [x |-> 10, y |-> 10, w |-> 1, h |-> 1],
    [x |-> 20, y |-> 20, w |-> 40, h |-> 10],
    [x |-> 0, y |-> VH - 1, w |-> VW, h |-> 1],
    [x |-> 5, y |-> 5, w |-> 0, h |-> 0],
    [x |-> 20, y |-> 500, w |-> 200, h |-> 50] }

GridInit == allRects = {}
GridIdle == allRects = {}

\* index.js:684-689  a collector contributes one more rect to allRects
AddRect ==
  /\ Cardinality(allRects) < MaxRects
  /\ \E r \in RectSamples \ allRects : allRects' = allRects \cup {r}
  /\ UNCHANGED nonGrid

(* ------ overlay scan, hide and clean audit in the page (index.js:244-720) -- *)
\* a page of three elements: 1 is a child of body, 2 a child of 1, 3 a child of body
Elems == 1..3
Parent == <<0, 1, 0>>
AncestorsOrSelf(e) == {e} \cup (IF Parent[e] = 0 THEN {} ELSE {Parent[e]})

Rect(x, y, w, h) == [x |-> x, y |-> y, w |-> w, h |-> h]
NoBox == Rect(0, 0, 0, 0)

\* element 1: a container (div, or a nav/header landmark): a top bar, a tall
\* sticky header, a bottom bar, a modal panel
Container ==
  [kind : {"div", "nav"}, position : {"fixed", "static"},
   rect : {Rect(0, 0, VW, 60), Rect(0, 0, VW, 200), Rect(0, VH - 100, VW, 100),
           Rect(50, 200, 300, 400)},
   cookie : BOOLEAN, buttons : {0, 2}, cta : {FALSE}]
\* element 2: an image or a link inside element 1
Inner ==
  {el \in [kind : {"img", "a"}, position : {"static"},
           rect : {Rect(300, 10, 60, 40), Rect(350, 20, 100, 40), Rect(20, VH - 80, 200, 60)},
           cookie : {FALSE}, buttons : {0}, cta : BOOLEAN] :
     el.cta => el.kind = "a"}
\* element 3: an image or a link of the page content, inside the viewport or
\* across its right, bottom or left edge
Content ==
  {el \in [kind : {"img", "a"}, position : {"static", "fixed"},
           rect : {Rect(20, 300, 200, 50), Rect(VW - 20, 400, 100, 50),
                   Rect(20, VH - 20, 200, 50), Rect(-30, 500, 100, 50)},
           cookie : {FALSE}, buttons : {0}, cta : BOOLEAN] :
     el.cta => el.kind = "a"}

\* mutant of HiddenByRule: hide every element whose box intersects the box of a
\* tagged element inside the fold
HiddenByRuleRects ==
  IF ~styleAdded THEN {}
  ELSE {e \in Elems : \E t \in tagged :
          LET r == dom[e].rect
              o == dom[t].rect
              ox == Max(0, o.x)
              oy == Max(0, o.y)
              ow == Min(VW, o.x + o.w) - ox
              oh == Min(VH, o.y + o.h) - oy IN
          /\ Max(0, Min(r.x + r.w, ox + ow) - Max(r.x, ox))
               * Max(0, Min(r.y + r.h, oy + oh) - Max(r.y, oy)) > 0
          /\ r.y < VH /\ r.y + r.h > 0}

\* index.js:321-324  the elements the injected rule
\* [data-foldy-overlay-candidate="1"]{display:none!important} matches
HiddenByRule == IF styleAdded THEN tagged ELSE {}

\* an element generates boxes unless it or an ancestor has display: none
Rendered(e) == \A a \in AncestorsOrSelf(e) : a \notin HiddenByRule

\* el.getBoundingClientRect(): all zero for an element without boxes
getBoundingClientRect(e) == IF Rendered(e) THEN dom[e].rect ELSE NoBox

\* index.js:258-264, 338-349  isVisible
isVisible(e) ==
  LET r == getBoundingClientRect(e) IN
  /\ e \notin HiddenByRule
  /\ r.w > 0 /\ r.h > 0
  /\ r.y < VH /\ r.x < VW /\ r.y + r.h > 0 /\ r.x + r.w > 0

\* el.innerText: the element's text and that of its descendants
innerTextHasCookie(e) == \E d \in Elems : e \in AncestorsOrSelf(d) /\ dom[d].cookie

\* el.querySelectorAll("button,a,[role='button']").length
btnCount(e) ==
  dom[e].buttons + Cardinality({d \in Elems : d # e /\ e \in AncestorsOrSelf(d) /\ dom[d].kind = "a"})

\* index.js:265-288  the filter that selects overlay candidates
candidates ==
  {e \in Elems :
     LET r == getBoundingClientRect(e)
         inFoldWidth == Max(0, Min(r.x + r.w, VW) - Max(r.x, 0))
         inFoldHeight == Max(0, Min(r.y + r.h, VH) - Max(r.y, 0))
         inFoldArea == inFoldWidth * inFoldHeight
         wideBar == 10 * inFoldWidth >= 6 * VW
         likelyBar == r.h >= 48 /\ r.y >= VH - 220 /\ wideBar /\ btnCount(e) >= 2 IN
     /\ dom[e].position = "fixed"
     /\ isVisible(e)
     /\ \/ innerTextHasCookie(e)
        \/ likelyBar
        \/ 5 * inFoldArea >= VW * VH}

\* index.js:512-516, 537-541  a rect clamped to the viewport
ClampToFold(r) ==
  LET x == Max(0, Min(r.x, VW))
      y == Max(0, Min(r.y, VH)) IN
  Rect(x, y, Max(0, Min(r.x + r.w, VW) - x), Max(0, Min(r.y + r.h, VH) - y))

\* index.js:368-388, 627-629  a visible link that has CTA text or looks like a button
isCta(e) == dom[e].kind = "a" /\ isVisible(e) /\ dom[e].cta

\* index.js:507-558  the elements whose rects the collectors push: visible
\* media, and visible CTAs that reach into the fold vertically (the size floor
\* and the 6% cap, which shrinks a rect about its centre, are left out)
Contributors ==
  {e \in Elems :
     LET r == getBoundingClientRect(e)
         c == ClampToFold(r) IN
     /\ c.w > 0 /\ c.h > 0
     /\ \/ dom[e].kind = "img" /\ isVisible(e)
        \/ isCta(e) /\ ~(r.y + r.h <= 0 \/ r.y >= VH)}

\* index.js:626-636  ctaDetection: firstCtaInFold
ctaDetection ==
  \E e \in Elems :
    LET r == getBoundingClientRect(e) IN
    isCta(e) /\ r.y >= 0 /\ r.y + r.h <= VH

\* index.js:321-324, 507-558  the coverage the collectors would measure on the
\* page as it is before the style tag is added: no element hidden by the rule
CoverageBeforeHide ==
  LET vis(e) == LET r == dom[e].rect IN
                  /\ r.w > 0 /\ r.h > 0
                  /\ r.y < VH /\ r.x < VW /\ r.y + r.h > 0 /\ r.x + r.w > 0
      contrib == {e \in Elems :
                    LET r == dom[e].rect
                        c == ClampToFold(r) IN
                    /\ c.w > 0 /\ c.h > 0
                    /\ \/ dom[e].kind = "img" /\ vis(e)
                       \/ dom[e].kind = "a" /\ vis(e) /\ dom[e].cta
                            /\ ~(r.y + r.h <= 0 \/ r.y >= VH)} IN
  foldCoveragePct({ClampToFold(dom[e].rect) : e \in contrib})

NotAudited ==
  [contributors |-> {}, firstCtaInFold |-> FALSE, foldCoveragePct |-> -1,
   visibleFoldCoveragePct |-> -1]

PageInit ==
  /\ dom \in {<<a, b, c>> : a \in Container, b \in Inner, c \in Content}
  /\ tagged = {}
  /\ styleAdded = FALSE
  /\ ppc = "loaded"
  /\ clean = NotAudited
  /\ marked = 0

PageIdle ==
  /\ dom = << [kind |-> "div", position |-> "static", rect |-> Rect(0, 0, VW, 60),
               cookie |-> FALSE, buttons |-> 0, cta |-> FALSE],
              [kind |-> "img", position |-> "static", rect |-> Rect(300, 10, 60, 40),
               cookie |-> FALSE, buttons |-> 0, cta |-> FALSE],
              [kind |-> "img", position |-> "static", rect |-> Rect(20, 300, 200, 50),
               cookie |-> FALSE, buttons |-> 0, cta |-> FALSE] >>
  /\ tagged = {}
  /\ styleAdded = FALSE
  /\ ppc = "loaded"
  /\ clean = NotAudited
  /\ marked = 0

\* index.js:255-310  the scan's page function: select the candidates and tag them
PreHideOverlays ==
  /\ ppc = "loaded"
  /\ tagged' = candidates
  /\ marked' = Cardinality(candidates)        \* index.js:306
  /\ ppc' = "scanned"
  /\ UNCHANGED <<dom, styleAdded, clean>>
  /\ UNCHANGED nonPage

\* index.js:249-252, 312-316, 861-867  the scan's deadline (or the handler's
\* watchdog) fires before page.evaluate settles: the handler goes on with the
\* zeroed result.  Nothing cancels the call: its page function, sent to the
\* page before any later call, still runs there to its end, tagging included,
\* ahead of the page functions of the hide and audit stages.
PreHideTimeout ==
  /\ ppc = "loaded"
  /\ tagged' = candidates
  /\ marked' = 0                              \* index.js:315, 861
  /\ ppc' = "scanned"
  /\ UNCHANGED <<dom, styleAdded, clean>>
  /\ UNCHANGED nonPage

\* index.js:321-324  hideOverlays: add the style tag
HideOverlays ==
  /\ ppc = "scanned"
  /\ styleAdded' = TRUE
  /\ ppc' = "hidden"
  /\ UNCHANGED <<dom, tagged, clean, marked>>
  /\ UNCHANGED nonPage

\* index.js:327-720  cleanAudit: collect the content rects, rasterize, detect CTAs
CleanAudit ==
  /\ ppc = "hidden"
  /\ LET pct == foldCoveragePct({ClampToFold(getBoundingClientRect(e)) : e \in Contributors}) IN
       clean' = [contributors |-> Contributors,
                 firstCtaInFold |-> ctaDetection,
                 foldCoveragePct |-> pct,
                 visibleFoldCoveragePct |-> pct]    \* index.js:706  alias of the clean value
  /\ ppc' = "audited"
  /\ UNCHANGED <<dom, tagged, styleAdded, marked>>
  /\ UNCHANGED nonPage

(* ------- validation phase of /render (src/index.js:33-40, 784-843) ------- *)

\* index.js:136-172  the keys of the DEVICES object literal
OwnDevices == {"iphone_15_pro", "iphone_15_pro_max", "pixel_8", "galaxy_s23", "iphone_se_2"}

\* property names every object literal inherits from Object.prototype
InheritedProps == {"constructor", "__proto__", "toString", "valueOf", "hasOwnProperty"}

\* index.js:174  const d = DEVICES[key]: a plain property read, which also finds
\* inherited properties
DevicesLookup(key) ==
  IF key \in OwnDevices THEN "entry"
  ELSE IF key \in InheritedProps THEN "inherited"
  ELSE "undefined"

\* index.js:173-188  deviceFromKey: null when the lookup is falsy, else a device
\* record built from whatever the lookup returned
deviceFromKey(key) == IF DevicesLookup(key) = "undefined" THEN "null" ELSE "device"

\* device keys submitted: empty, registered, unregistered, inherited names
DeviceKeys == {"", "iphone_15_pro", "pixel_8", "nokia_3310", "constructor", "__proto__"}

\* url field submitted: empty, not a URL, a blocked destination, a public one
UrlKinds == {"", "malformed", "blocked", "public"}

\* index.js:88-115  status thrown by assertUrlAllowed, 0 = returns normally
GuardStatus(u) == IF u = "malformed" THEN 400 ELSE IF u = "blocked" THEN 422 ELSE 0

ValidateInit ==
  /\ vin \in [token : BOOLEAN, url : UrlKinds, device : DeviceKeys]
  /\ vpc = "auth"
  /\ vout = 0
  /\ vused = {}

ValidateIdle ==
  /\ vin = [token |-> FALSE, url |-> "", device |-> ""]
  /\ vpc = "auth"
  /\ vout = 0
  /\ vused = {}

\* index.js:33-40  authMiddleware
VAuth ==
  /\ vpc = "auth"
  /\ IF vin.token THEN vpc' = "params" /\ vout' = vout
                  ELSE vpc' = "done" /\ vout' = 401
  /\ UNCHANGED <<vin, vused>>
  /\ UNCHANGED nonValidate

\* index.js:806-815  if (!urlRaw || !deviceKey) return 400
VParams ==
  /\ vpc = "params"
  /\ IF vin.url = "" \/ vin.device = "" THEN vpc' = "done" /\ vout' = 400
                                         ELSE vpc' = "guard" /\ vout' = vout
  /\ UNCHANGED <<vin, vused>>
  /\ UNCHANGED nonValidate

\* index.js:819, 951-954  await assertUrlAllowed(urlRaw); a throw goes to the catch
VGuard ==
  /\ vpc = "guard"
  /\ IF GuardStatus(vin.url) # 0
       THEN vpc' = "done" /\ vout' = CatchStatus(GuardStatus(vin.url))
       ELSE vpc' = "device" /\ vout' = vout
  /\ UNCHANGED <<vin, vused>>
  /\ UNCHANGED nonValidate

\* index.js:820-821  const device = deviceFromKey(deviceKey); if (!device) return 400
VDevice ==
  /\ vpc = "device"
  /\ IF deviceFromKey(vin.device) = "null" THEN vpc' = "done" /\ vout' = 400
                                           ELSE vpc' = "context" /\ vout' = vout
  /\ UNCHANGED <<vin, vused>>
  /\ UNCHANGED nonValidate

\* index.js:823-829  getBrowser, browser.newContext({...device.contextOpts}), newPage:
\* they succeed, fail (500) or run into a watchdog (504)
VContext ==
  /\ vpc = "context"
  /\ vused' = vused \cup {"context"}
  /\ \E st \in {0, 500, 504} :
       IF st = 0 THEN vpc' = "goto" /\ vout' = vout
                 ELSE vpc' = "done" /\ vout' = CatchStatus(IF st = 500 THEN 0 ELSE st)
  /\ UNCHANGED vin
  /\ UNCHANGED nonValidate

\* index.js:837-950  page.goto(safeUrl) and the rest of the pipeline
VNavigate ==
  /\ vpc = "goto"
  /\ vused' = vused \cup {"navigation"}
  /\ \E st \in {200, 500, 504} :
       vout' = IF st = 200 THEN 200 ELSE CatchStatus(IF st = 500 THEN 0 ELSE st)
  /\ vpc' = "done"
  /\ UNCHANGED vin
  /\ UNCHANGED nonValidate


(* ------------------ job store and worker (src/worker.js) ----------------- *)

MaxJobs == 2                  \* rows in the screenshot_jobs table
MAX_ATTEMPTS == 3             \* worker.js:18
RECYCLE_EVERY_N_JOBS == 2     \* worker.js:17, WORKER_BROWSER_RECYCLE_N=2

\* two worker processes polling the same job store
Workers == {"w1", "w2"}
Jobs == 1..MaxJobs

NoJob == [id |-> 0, url |-> "none", key |-> "none", device |-> "none"]

\* worker.js:74-87  coerceUrl: a string as it is, an object through its url/href
\* field, anything else null
coerceUrl(u) == IF u = "omitted" THEN "none" ELSE IF u = "objAbs" THEN "abs" ELSE u

\* mutant of looksHttp: every string passes
looksHttpAnyString(u) == u # "none"

\* worker.js:89-91  looksHttp: the value is a string starting with http(s)://
looksHttp(u) == u = "abs"

\* The lease call claim_screenshot_job is a database function that is not part
\* of the sources; it is modelled from the specification: it atomically picks
\* one queued row that nobody holds and whose attempt counter is below the cap,
\* records the holder and increments the counter.
Leasable(j) ==
  /\ rows[j].status = "queued"
  /\ rows[j].lease = "none"
  /\ rows[j].attempt < MAX_ATTEMPTS

LeaseRow(j, w) == [rows EXCEPT ![j].lease = w, ![j].attempt = @ + 1]

\* shapes in which the lease call returns a row (worker.js:107-126), with the
\* url column either included or left out
RowShapes == {"array", "wrapper", "flat"}
RpcData(j) ==
  {[shape |-> sh, id |-> j, url |-> u, key |-> "omitted", device |-> "omitted"] :
     sh \in RowShapes, u \in {rows[j].url, "omitted"}}

\* worker.js:107-128  unwrapping: only a non-empty array, a {job: ...} wrapper
\* or a flat row yields a row; null, an empty object or array, a counter-like
\* object without id and a primitive yield none
Unwraps(d) == d.shape \in RowShapes

\* worker.js:130-164  normalization of a returned row: the url comes from the
\* row or, when it does not look like http(s), from a lookup of the row by id
claimNormalizedJob(d) ==
  LET url1 == coerceUrl(d.url)
      url2 == IF d.id # 0 /\ ~looksHttp(url1) THEN rows[d.id].url ELSE url1 IN
  IF ~Unwraps(d) THEN NoJob
  ELSE IF d.id = 0 THEN NoJob
  ELSE IF ~looksHttp(url2) THEN NoJob
  ELSE [id |-> d.id, url |-> url2, key |-> IF d.key = "omitted" THEN "default" ELSE d.key,
        device |-> IF d.device = "omitted" THEN "iphone_15_pro" ELSE d.device]   \* :133

\* mutant of UpdateJob: the update is issued without its .eq("id", ...) filter
UpdateJobNoFilter(rs, id, st) == [j \in Jobs |-> [rs[j] EXCEPT !.status = st]]

\* worker.js:208-212, 240-244  update({status: ...}).eq("id", job.id)
UpdateJob(rs, id, st) == [j \in Jobs |-> IF j = id THEN [rs[j] EXCEPT !.status = st] ELSE rs[j]]

WorkerInit ==
  /\ rows \in [Jobs -> {[status |-> "queued", attempt |-> 0, lease |-> "none", url |-> u,
                           screenshot_url |-> <<>>] :
                          u \in {"abs", "rel"}}]
  /\ leasedTo = [j \in Jobs |-> {}]
  /\ doneBy = [j \in Jobs |-> {}]
  /\ errorBy = [j \in Jobs |-> {}]
  /\ wpc = [w \in Workers |-> "claim"]
  /\ job = [w \in Workers |-> NoJob]
  /\ wbrowser = [w \in Workers |-> "null"]
  /\ jobsSinceLaunch = [w \in Workers |-> 0]
  /\ lastWait = [w \in Workers |-> "none"]
  /\ bucket = {}

WorkerIdle ==
  /\ rows = [j \in Jobs |-> [status |-> "queued", attempt |-> 0, lease |-> "none", url |-> "abs",
                          screenshot_url |-> <<>>]]
  /\ leasedTo = [j \in Jobs |-> {}]
  /\ doneBy = [j \in Jobs |-> {}]
  /\ errorBy = [j \in Jobs |-> {}]
  /\ wpc = [w \in Workers |-> "claim"]
  /\ job = [w \in Workers |-> NoJob]
  /\ wbrowser = [w \in Workers |-> "null"]
  /\ jobsSinceLaunch = [w \in Workers |-> 0]
  /\ lastWait = [w \in Workers |-> "none"]
  /\ bucket = {}

\* answers of the lease call, in every shape worker.js:107-126 tells apart
NoRowShapes == {"null", "emptyObject", "emptyArray", "counter", "primitive"}
LeaseAnswers ==
  {[shape |-> sh, id |-> i, url |-> u, key |-> k, device |-> dv] :
     sh \in RowShapes, i \in {0} \cup Jobs, u \in {"abs", "rel", "omitted", "objAbs"},
     k \in {"given", "omitted"}, dv \in {"omitted", "pixel_8", "galaxy_s23"}}
  \cup {[shape |-> sh, id |-> 0, url |-> "omitted", key |-> "omitted", device |-> "omitted"] :
          sh \in NoRowShapes}

\* index.js:136-172  DEVICES of the render service: the profile of a key
RenderProfile(key) ==
  CASE key = "iphone_15_pro" -> [viewport |-> <<393, 852>>, dpr1000 |-> 3000, ua |-> "iPhone OS 17_0 Safari"]
    [] key = "iphone_15_pro_max" -> [viewport |-> <<430, 932>>, dpr1000 |-> 3000, ua |-> "iPhone OS 17_0 Safari"]
    [] key = "pixel_8" -> [viewport |-> <<412, 915>>, dpr1000 |-> 2625, ua |-> "Android 14 Pixel 8 Chrome/125"]
    [] key = "galaxy_s23" -> [viewport |-> <<360, 800>>, dpr1000 |-> 3000, ua |-> "Android 14 SM-S911B Chrome/125"]
    [] key = "iphone_se_2" -> [viewport |-> <<375, 667>>, dpr1000 |-> 2000, ua |-> "iPhone OS 17_0 Safari"]

\* worker.js:29-42  DEVICES of the worker
WorkerOwnDevices == {"iphone_15_pro", "pixel_8"}
WorkerProfile(key) ==
  CASE key = "iphone_15_pro" -> [viewport |-> <<393, 852>>, dpr1000 |-> 3000, ua |-> "iPhone OS 17_0 Safari"]
    [] key = "pixel_8" -> [viewport |-> <<412, 915>>, dpr1000 |-> 2625, ua |-> "Android 14 Pixel 8 Chrome/125"]

\* worker.js:44-55  deviceOpts: const d = DEVICES[key] || DEVICES.iphone_15_pro
deviceOpts(key) ==
  IF key \in WorkerOwnDevices THEN WorkerProfile(key) ELSE WorkerProfile("iphone_15_pro")

NoCtx == [viewport |-> <<0, 0>>, dpr1000 |-> 0, ua |-> "none"]

NormalizeInit ==
  /\ ndata \in LeaseAnswers
  /\ npc = "claim"
  /\ nout = NoJob
  /\ nctx = NoCtx

NormalizeIdle ==
  /\ ndata = [shape |-> "null", id |-> 0, url |-> "omitted", key |-> "omitted",
              device |-> "omitted"]
  /\ npc = "claim"
  /\ nout = NoJob
  /\ nctx = NoCtx

\* worker.js:257, 96-165  const job = await claimNormalizedJob()
NClaim ==
  /\ npc = "claim"
  /\ nout' = claimNormalizedJob(ndata)
  /\ npc' = "claimed"
  /\ UNCHANGED <<ndata, nctx>>
  /\ UNCHANGED nonNormalize

\* worker.js:258-262  if (!job) { sleep; continue }
NIdle ==
  /\ npc = "claimed"
  /\ nout = NoJob
  /\ npc' = "sleep"
  /\ UNCHANGED <<ndata, nout, nctx>>
  /\ UNCHANGED nonNormalize

\* worker.js:263-264  await processJob(job)
NProcess ==
  /\ npc = "claimed"
  /\ nout # NoJob
  /\ npc' = "processJob"
  /\ UNCHANGED <<ndata, nout, nctx>>
  /\ UNCHANGED nonNormalize

\* worker.js:180-185  processJob reaches page.goto(job.url)
NGoto ==
  /\ npc = "processJob"
  /\ nctx' = deviceOpts(nout.device)          \* worker.js:181
  /\ npc' = "goto"
  /\ UNCHANGED <<ndata, nout>>
  /\ UNCHANGED nonNormalize

\* mutant of MainCatch: main awaits processJob outside any try, so a throw
\* rejects main() and its .catch handler exits the process
MainNoCatch(thrown) == IF thrown THEN "exited" ELSE "claim"

\* worker.js:255-269  where main goes when processJob settles: the next loop
\* iteration on return; on a throw the catch, which sleeps ERROR_BACKOFF_MS
MainCatch(thrown) == IF thrown THEN "sleep" ELSE "claim"

\* mutant of AfterNoJob: with no job, main goes straight to the next lease call
AfterNoJobHotLoop == "claim"

\* worker.js:258-262  if (!job) { await sleep(POLL_SLEEP_MS); continue; }
AfterNoJob == "sleep"

\* worker.js:257-262, 96-128  the lease call returns nothing usable (no row, an
\* empty or counter-like value, or an error): main sleeps POLL_SLEEP_MS
ClaimIdle(w) ==
  /\ wpc[w] = "claim"
  /\ wpc' = [wpc EXCEPT ![w] = AfterNoJob]
  /\ lastWait' = [lastWait EXCEPT ![w] = "poll"]
  /\ UNCHANGED <<rows, leasedTo, doneBy, errorBy, job, wbrowser, jobsSinceLaunch, bucket>>
  /\ UNCHANGED nonWorker

\* worker.js:257-264, 96-165  the lease call hands over a row; the worker
\* normalizes it and either starts processJob or discards it and sleeps
ClaimRow(w) ==
  /\ wpc[w] = "claim"
  /\ \E j \in Jobs :
       /\ Leasable(j)
       /\ rows' = LeaseRow(j, w)
       /\ leasedTo' = [leasedTo EXCEPT ![j] = @ \cup {w}]
       /\ \E d \in RpcData(j) :
            LET nj == claimNormalizedJob(d) IN
            /\ job' = [job EXCEPT ![w] = nj]
            /\ IF nj.id = 0
                 THEN /\ wpc' = [wpc EXCEPT ![w] = AfterNoJob]
                      /\ lastWait' = [lastWait EXCEPT ![w] = "poll"]
                 ELSE /\ wpc' = [wpc EXCEPT ![w] = "prepare"]
                      /\ lastWait' = [lastWait EXCEPT ![w] = "none"]
  /\ UNCHANGED <<doneBy, errorBy, wbrowser, jobsSinceLaunch, bucket>>
  /\ UNCHANGED nonWorker

\* worker.js:61-71  getBrowser: launch when there is no browser or the recycle
\* count is reached; a stored browser is returned without a connection check
NeedsLaunch(w) == wbrowser[w] = "null" \/ jobsSinceLaunch[w] >= RECYCLE_EVERY_N_JOBS

\* worker.js:180-182  getBrowser, newContext and newPage succeed
Prepare(w) ==
  /\ wpc[w] = "prepare"
  /\ NeedsLaunch(w) \/ wbrowser[w] = "live"
  /\ wbrowser' = [wbrowser EXCEPT ![w] = "live"]
  /\ jobsSinceLaunch' = [jobsSinceLaunch EXCEPT ![w] = IF NeedsLaunch(w) THEN 0 ELSE @]
  /\ wpc' = [wpc EXCEPT ![w] = "render"]
  /\ UNCHANGED <<rows, leasedTo, doneBy, errorBy, job, lastWait, bucket>>
  /\ UNCHANGED nonWorker

\* worker.js:180-182, 265-268  the launch, newContext or newPage throws before
\* the try block: no row update; main catches and backs off.  A failed launch
\* leaves the closed previous browser in `browser`; a launch that succeeded
\* before newContext threw leaves the new one.
PrepareFail(w) ==
  /\ wpc[w] = "prepare"
  /\ \E relaunched \in BOOLEAN :
       /\ relaunched => NeedsLaunch(w)
       /\ wbrowser' = [wbrowser EXCEPT ![w] =
                         IF relaunched THEN "live"
                         ELSE IF NeedsLaunch(w) /\ @ # "null" THEN "dead" ELSE @]
       /\ jobsSinceLaunch' = [jobsSinceLaunch EXCEPT ![w] = IF relaunched THEN 0 ELSE @]
  /\ job' = [job EXCEPT ![w] = NoJob]
  /\ wpc' = [wpc EXCEPT ![w] = MainCatch(TRUE)]
  /\ lastWait' = [lastWait EXCEPT ![w] = "backoff"]
  /\ UNCHANGED <<rows, leasedTo, doneBy, errorBy, bucket>>
  /\ UNCHANGED nonWorker

\* worker.js:185-202  navigate, hide, screenshot
Capture(w) ==
  /\ wpc[w] = "render"
  /\ wbrowser[w] = "live"
  /\ wpc' = [wpc EXCEPT ![w] = "upload"]
  /\ UNCHANGED <<rows, leasedTo, doneBy, errorBy, job, wbrowser, jobsSinceLaunch, lastWait, bucket>>
  /\ UNCHANGED nonWorker

\* worker.js:162  the object key: the row's screenshot_key, or `${job.id}.png`
ObjectKey(jb) == <<jb.id, jb.key>>

\* worker.js:174-175  sb.storage.from(bucket).getPublicUrl(key).data.publicUrl
getPublicUrl(key) == <<"public", key>>

\* mutant of uploadPng: the error of the upload is not looked at
uploadPngIgnoresError(error) == "return"

\* worker.js:173  if (error) throw error
uploadPng(error) == IF error THEN "throw" ELSE "return"

\* worker.js:205, 168-176  uploadPng returns: the store has taken the object
\* (the throwing outcome is ProcessFail at "upload")
Upload(w) ==
  /\ wpc[w] = "upload"
  /\ \E error \in BOOLEAN :
       /\ uploadPng(error) = "return"
       /\ bucket' = IF error THEN bucket ELSE bucket \cup {ObjectKey(job[w])}
  /\ wpc' = [wpc EXCEPT ![w] = "markDone"]
  /\ UNCHANGED <<rows, leasedTo, doneBy, errorBy, job, wbrowser, jobsSinceLaunch, lastWait>>
  /\ UNCHANGED nonWorker

\* worker.js:208-235, 247-249  mark the row done (the store may refuse the update,
\* which the code does not look at), count the job, close the context
MarkDone(w) ==
  /\ wpc[w] = "markDone"
  /\ \E accepted \in BOOLEAN :
       IF accepted
         THEN /\ rows' = [UpdateJob(rows, job[w].id, "done") EXCEPT
                         ![job[w].id].screenshot_url = getPublicUrl(ObjectKey(job[w]))]
              /\ doneBy' = [j \in Jobs |->
                              IF UpdateJob(rows, job[w].id, "done")[j] # rows[j] \/ j = job[w].id
                                THEN doneBy[j] \cup {w} ELSE doneBy[j]]
         ELSE UNCHANGED <<rows, doneBy>>
  /\ jobsSinceLaunch' = [jobsSinceLaunch EXCEPT ![w] = @ + 1]
  /\ job' = [job EXCEPT ![w] = NoJob]
  /\ wpc' = [wpc EXCEPT ![w] = MainCatch(FALSE)]
  /\ UNCHANGED <<leasedTo, errorBy, wbrowser, lastWait, bucket>>
  /\ UNCHANGED nonWorker

\* worker.js:236-249, 265-268  a step inside the try throws: mark the row error,
\* rethrow, close the context; main catches and backs off
ProcessFail(w) ==
  /\ wpc[w] \in {"render", "upload"}
  /\ \E accepted \in BOOLEAN :
       IF accepted
         THEN /\ rows' = UpdateJob(rows, job[w].id, "error")
              /\ errorBy' = [j \in Jobs |->
                               IF UpdateJob(rows, job[w].id, "error")[j] # rows[j] \/ j = job[w].id
                                 THEN errorBy[j] \cup {w} ELSE errorBy[j]]
         ELSE UNCHANGED <<rows, errorBy>>
  /\ job' = [job EXCEPT ![w] = NoJob]
  /\ wpc' = [wpc EXCEPT ![w] = MainCatch(TRUE)]
  /\ lastWait' = [lastWait EXCEPT ![w] = "backoff"]
  /\ UNCHANGED <<leasedTo, doneBy, wbrowser, jobsSinceLaunch, bucket>>
  /\ UNCHANGED nonWorker

\* worker.js:260, 267  the sleep ends; the loop issues the next lease call
Wake(w) ==
  /\ wpc[w] = "sleep"
  /\ wpc' = [wpc EXCEPT ![w] = "claim"]
  /\ UNCHANGED <<rows, leasedTo, doneBy, errorBy, job, wbrowser, jobsSinceLaunch, lastWait, bucket>>
  /\ UNCHANGED nonWorker

\* the worker's engine instance crashes or loses its connection
WorkerDisconnect(w) ==
  /\ wbrowser[w] = "live"
  /\ wbrowser' = [wbrowser EXCEPT ![w] = "dead"]
  /\ UNCHANGED <<rows, leasedTo, doneBy, errorBy, wpc, job, jobsSinceLaunch, lastWait, bucket>>
  /\ UNCHANGED nonWorker

(* ------------------ the generic watchdog (src/index.js:118-129) ---------- *)
Calls == {"c1", "c2"}
Labels == {"page.goto", "hideOverlays"}

Unsettled == [kind |-> "pending", status |-> 0, label |-> ""]

\* no call made yet
NoCall == [label |-> "", p |-> "none", timer |-> "none", out |-> Unsettled, unhandled |-> {}]

\* index.js:121-126  the rejection the timer's callback delivers
TimeoutError(label) == [kind |-> "timeout", status |-> 504, label |-> label]

\* what the passed promise settles the race with: its value, or its own error
OwnOutcome(settled) ==
  IF settled = "fulfilled" THEN [kind |-> "value", status |-> 0, label |-> ""]
  ELSE [kind |-> "error", status |-> 0, label |-> ""]

\* a promise settles once: resolve and reject of a settled promise do nothing
Settle(out, with) == IF out.kind = "pending" THEN with ELSE out

\* mutant of clearTimeout: the finally callback leaves the timer armed
clearTimeoutSkipped(timer) == timer

\* index.js:128  promise.finally(() => clearTimeout(timer)): an armed timer is
\* cancelled, for a timer that has fired the call does nothing
clearTimeout(timer) == IF timer = "armed" THEN "cleared" ELSE timer

\* index.js:128  the promises a reaction is attached to inside withTimeout:
\* `promise` by .finally, the promise .finally returns and `timeout` by Promise.race
Handled == {"promise", "finally", "timeout"}

TimeoutInit == wt = [c \in Calls |-> NoCall]
TimeoutIdle == wt = [c \in Calls |-> NoCall]

\* index.js:119-129  withTimeout(promise, ms, label): arm the timer, return the race
withTimeout(c) ==
  /\ wt[c] = NoCall
  /\ \E label \in Labels :
       wt' = [wt EXCEPT ![c] =
                [label |-> label, p |-> "pending", timer |-> "armed", out |-> Unsettled,
                 unhandled |-> {}]]
  /\ UNCHANGED nonTimeout

\* the passed promise settles.  Its reactions run as microtasks before any timer
\* callback: the finally callback clears the timer, the promise .finally
\* returned settles the same way and settles the race unless it is settled.
\* A rejected promise without a reaction is an unhandled rejection.
PromiseSettles(c) ==
  /\ wt[c].p = "pending"
  /\ \E settled \in {"fulfilled", "rejected"} :
       wt' = [wt EXCEPT ![c] =
                [@ EXCEPT !.p = settled,
                          !.timer = clearTimeout(@),
                          !.out = Settle(@, OwnOutcome(settled)),
                          !.unhandled = IF settled = "rejected"
                                          THEN @ \cup ({"promise", "finally"} \ Handled)
                                          ELSE @]]
  /\ UNCHANGED nonTimeout

\* index.js:121-126  ms elapsed with the timer still armed: `timeout` rejects
\* with the 504 error and settles the race unless it is settled
TimerFires(c) ==
  /\ wt[c].timer = "armed"
  /\ wt' = [wt EXCEPT ![c] =
               [@ EXCEPT !.timer = "fired",
                         !.out = Settle(@, TimeoutError(wt[c].label)),
                         !.unhandled = @ \cup ({"timeout"} \ Handled)]]
  /\ UNCHANGED nonTimeout

Init == RenderInit /\ LegacyInit /\ GuardIdle /\ WorkerIdle /\ ValidateIdle /\ NormalizeIdle /\ GridIdle /\ PageIdle /\ StoreIdle /\ TimeoutIdle

Next ==
  \/ LaunchResolve
  \/ LaunchReject
  \/ Disconnect
  \/ Sigterm
  \/ SigtermClose
  \/ ProcExit
  \/ \E r \in Reqs : ReqReject(r)
  \/ \E r \in Reqs : ReqAccept(r)
  \/ \E r \in Reqs : StageDone(r)
  \/ \E r \in Reqs : StageFail(r)
  \/ \E r \in Reqs : HeatmapThrows(r)
  \/ \E r \in Reqs : Watchdog(r)
  \/ \E r \in Reqs : PreHideDone(r)
  \/ \E r \in Reqs : PreHideInnerTimeout(r)
  \/ \E r \in Reqs : PreHideOuterTimeout(r)
  \/ \E r \in Reqs : PreHideError(r)
  \/ \E r \in Reqs : LateNewContext(r)
  \/ \E r \in Reqs : LateScan(r)
  \/ \E r \in Reqs : Finally(r)

Spec == Init /\ [][Next]_vars

InitLegacy == LegacyInit /\ RenderInit /\ GuardIdle /\ WorkerIdle /\ ValidateIdle /\ NormalizeIdle /\ GridIdle /\ PageIdle /\ StoreIdle /\ TimeoutIdle

NextLegacy ==
  \/ \E c \in Callers : GetBrowserHit(c)
  \/ \E c \in Callers : GetBrowserLaunch(c)
  \/ \E c \in Callers : LegacyLaunchResolve(c)
  \/ \E c \in Callers : LegacyLaunchReject(c)
  \/ \E k \in 1..MaxLaunches : LegacyDisconnect(k)
  \/ \E c \in Callers : CallerReturn(c)

SpecLegacy == InitLegacy /\ [][NextLegacy]_vars

InitGuard == GuardInit /\ RenderInit /\ LegacyInit /\ WorkerIdle /\ ValidateIdle /\ NormalizeIdle /\ GridIdle /\ PageIdle /\ StoreIdle /\ TimeoutIdle

NextGuard ==
  \/ assertUrlAllowed_Sync
  \/ assertUrlAllowed_A
  \/ assertUrlAllowed_AAAA

SpecGuard == InitGuard /\ [][NextGuard]_vars

InitWorker == WorkerInit /\ RenderInit /\ LegacyInit /\ GuardIdle /\ ValidateIdle /\ NormalizeIdle /\ GridIdle /\ PageIdle /\ StoreIdle /\ TimeoutIdle

NextWorker ==
  \/ \E w \in Workers : ClaimIdle(w)
  \/ \E w \in Workers : ClaimRow(w)
  \/ \E w \in Workers : Prepare(w)
  \/ \E w \in Workers : PrepareFail(w)
  \/ \E w \in Workers : Capture(w)
  \/ \E w \in Workers : Upload(w)
  \/ \E w \in Workers : MarkDone(w)
  \/ \E w \in Workers : ProcessFail(w)
  \/ \E w \in Workers : Wake(w)
  \/ \E w \in Workers : WorkerDisconnect(w)

SpecWorker == InitWorker /\ [][NextWorker]_vars

InitNormalize == NormalizeInit /\ WorkerInit /\ RenderInit /\ LegacyInit /\ GuardIdle /\ ValidateIdle /\ GridIdle /\ PageIdle /\ StoreIdle /\ TimeoutIdle
NextNormalize == NClaim \/ NIdle \/ NProcess \/ NGoto
SpecNormalize == InitNormalize /\ [][NextNormalize]_vars

\* the steps of one worker process
WorkerStep(w) ==
  \/ ClaimIdle(w) \/ ClaimRow(w) \/ Prepare(w) \/ PrepareFail(w) \/ Capture(w)
  \/ Upload(w) \/ MarkDone(w) \/ ProcessFail(w) \/ Wake(w)

\* the worker under the scheduling of its runtime: every timer fires and every
\* awaited call settles, so a worker that can take a step eventually takes one
SpecWorkerLive ==
  InitWorker /\ [][NextWorker]_vars /\ \A w \in Workers : WF_vars(WorkerStep(w))

InitValidate == ValidateInit /\ RenderInit /\ LegacyInit /\ GuardIdle /\ WorkerIdle /\ NormalizeIdle /\ GridIdle /\ PageIdle /\ StoreIdle /\ TimeoutIdle

NextValidate ==
  \/ VAuth
  \/ VParams
  \/ VGuard
  \/ VDevice
  \/ VContext
  \/ VNavigate

SpecValidate == InitValidate /\ [][NextValidate]_vars

InitGrid == GridInit /\ RenderInit /\ LegacyInit /\ GuardIdle /\ WorkerIdle /\ ValidateIdle /\ NormalizeIdle /\ PageIdle /\ StoreIdle /\ TimeoutIdle
NextGrid == AddRect
SpecGrid == InitGrid /\ [][NextGrid]_vars

InitPage == PageInit /\ RenderInit /\ LegacyInit /\ GuardIdle /\ WorkerIdle /\ ValidateIdle /\ NormalizeIdle /\ GridIdle /\ StoreIdle /\ TimeoutIdle
NextPage == PreHideOverlays \/ PreHideTimeout \/ HideOverlays \/ CleanAudit
SpecPage == InitPage /\ [][NextPage]_vars

InitTimeout == TimeoutInit /\ RenderInit /\ LegacyInit /\ GuardIdle /\ WorkerIdle /\ ValidateIdle /\ NormalizeIdle /\ GridIdle /\ PageIdle /\ StoreIdle
NextTimeout ==
  \/ \E c \in Calls : withTimeout(c)
  \/ \E c \in Calls : PromiseSettles(c)
  \/ \E c \in Calls : TimerFires(c)
SpecTimeout == InitTimeout /\ [][NextTimeout]_vars

(* ---------------------- claims: render service -------------------------- *)

Range(q) == {q[i] : i \in 1..Len(q)}
Last(q) == q[Len(q)]
IsPrefix(p, q) == Len(p) <= Len(q) /\ \A i \in 1..Len(p) : p[i] = q[i]

\* the request holds, or is creating, a browsing context
HoldsContext(r) ==
  pc[r] \in {"newContext", "newPage", "goto", "preHide", "hide", "cleanAudit",
             "fonts", "shot", "heatmap", "finally"}

\* C2 (as claimed): the number of /render requests between context creation and
\* context close never exceeds the concurrency limit, whose default is 1
C2_AtMostLimitInFlight == Cardinality({r \in Reqs : HoldsContext(r)}) <= 1

\* C4 (as claimed): no browsing context created for a request is still open in the
\* engine once the request's handler has finished
C4_NoContextOutlivesRequest == \A r \in Reqs : pc[r] = "done" => ectx[r] # "open"

\* C6 (as claimed): a getBrowser call made after the shared instance disconnected
\* launches a new instance
C6_RelaunchAfterDisconnect ==
  [][\A r \in Reqs :
       (pc[r] = "idle" /\ pc'[r] = "launch" /\ browserPromise = "fulfilled" /\ ~engineLive)
         => launchCount' = launchCount + 1]_vars

C8_ScanTimeoutIsSoft ==
  \A r \in Reqs :
    /\ scanOutcome[r] \in {"timeout", "watchdog"} =>
         /\ "hide" \in Range(started[r])
         /\ pre[r] = [overlayRects |-> 0, overlayElemsMarked |-> 0,
                      overlayCoveragePct |-> 0, overlayBlockers |-> 0,
                      _preHideTimedOut |-> TRUE]
         /\ resp[r].status # 0 => (resp[r].status = 200 \/ Last(started[r]) # "preHide")
         /\ resp[r].status = 200 =>
              /\ resp[r].overlayCoveragePct = 0 /\ resp[r].overlayBlockers = 0
              /\ resp[r].overlayElemsMarked = 0 /\ resp[r].overlayRects = 0
              /\ resp[r].preHideTimedOut = TRUE
    /\ (scanOutcome[r] = "ok" /\ resp[r].status = 200) =>
         /\ resp[r].preHideTimedOut = FALSE
         /\ resp[r].overlayElemsMarked = pre[r].overlayElemsMarked
         /\ resp[r].overlayCoveragePct = pre[r].overlayCoveragePct

C8_Witness ==
  \E r1, r2 \in Reqs :
    /\ scanOutcome[r1] \in {"timeout", "watchdog"} /\ resp[r1].status = 200
    /\ pc[r1] = "finally"
    /\ scanOutcome[r2] = "ok" /\ resp[r2].status = 200
    /\ resp[r2].overlayElemsMarked > 0

\* C9 (as claimed): in relaxed mode no stage is given up because of a watchdog
C9_RelaxedHasNoWatchdog == \A r \in Reqs : relaxed[r] => wdFired[r] = {}

\* the five stages C10 orders
C10Order == <<"goto", "preHide", "hide", "cleanAudit", "shot">>
IsC10Stage(s) == s \in Range(C10Order)

\* engine calls of a request's stages that are in progress
InProgress(r) ==
  (IF IsC10Stage(pc[r]) THEN {pc[r]} ELSE {}) \cup
  (IF scanLate[r] THEN {"preHide"} ELSE {})

\* C10 (as claimed): the stages start in order and no two stages of one request
\* are in progress at the same time
C10_NoTwoStagesInProgress ==
  \A r \in Reqs :
    /\ IsPrefix(SelectSeq(started[r], IsC10Stage), C10Order)
    /\ Cardinality(InProgress(r)) <= 1

\* C10 (amended): the stages start in order, each after the handler stopped
\* waiting for the previous one; the only stage that can still be in progress
\* while a later one runs is an overlay scan given up by its watchdog
C10_StagesStartInOrder ==
  \A r \in Reqs :
    /\ IsPrefix(SelectSeq(started[r], IsC10Stage), C10Order)
    /\ InProgress(r) \ {"preHide"} \subseteq {pc[r]}
    /\ (Cardinality(InProgress(r)) > 1) => "preHide" \in wdFired[r]

C10_Witness ==
  \E r1, r2 \in Reqs :
    /\ resp[r1].status = 200 /\ scanOutcome[r1] = "ok"
    /\ SelectSeq(started[r1], IsC10Stage) = C10Order
    /\ scanLate[r2] /\ pc[r2] = "cleanAudit"

(* ------------------ claims: shared browser, second listing --------------- *)

\* C5 (as claimed): under any interleaving of getBrowser callers at most one
\* launch is in flight, so callers arriving during a launch share its instance
C5_AtMostOneLaunchInFlight == Cardinality({c \in Callers : lpc[c] = "launching"}) <= 1

(* --------------------------- claims: SSRF guard -------------------------- *)

\* the addresses C3 lists, written out by value
ClaimedV4(a) ==
  \/ a = <<127, 0, 0, 1>>
  \/ a[1] = 10
  \/ a[1] = 172 /\ a[2] \in 16..31
  \/ a[1] = 192 /\ a[2] = 168

ClaimedV6(a) ==
  \/ a = V6Loopback
  \/ Len(a[1]) = 4 /\ a[1][1] = 15 /\ a[1][2] \in {12, 13}                    \* fc00::/7
  \/ Len(a[1]) = 4 /\ a[1][1] = 15 /\ a[1][2] = 14 /\ a[1][3] \in 8..11       \* fe80::/10

\* the host is written as a listed address
LiteralBlocked ==
  \/ raw.kind = "v4" /\ ClaimedV4(raw.host)
  \/ raw.kind = "v6" /\ ClaimedV6(raw.host)

\* a lookup of the host name returned a listed address
ResolvedBlocked ==
  /\ raw.kind = "name"
  /\ \/ \E i \in 1..Len(v4) : ClaimedV4(v4[i])
     \/ \E i \in 1..Len(v6) : ClaimedV6(v6[i])

\* C3 (as claimed): a URL whose host is, or resolves to, a listed address is
\* rejected, whether the address is a literal or comes from DNS
C3_GuardRejectsListedAddresses ==
  (gpc = "done" /\ raw.parses /\ (LiteralBlocked \/ ResolvedBlocked)) => verdict = 422

\* the half of C3 that the code does meet: an address returned by DNS
C3_ResolvedAddressesRejected ==
  (gpc = "done" /\ raw.parses /\ ResolvedBlocked) => verdict = 422

\* the status the caller of /render sees for the guard's verdict (index.js:952)
GuardReported == IF verdict = 200 THEN 200 ELSE CatchStatus(verdict)

C1_OneLeaseOneDone ==
  \A j \in Jobs :
    /\ Cardinality(leasedTo[j]) <= 1
    /\ Cardinality(doneBy[j]) <= 1
    /\ doneBy[j] \subseteq leasedTo[j]

C1_Witness ==
  \E j1, j2 \in Jobs :
    /\ j1 # j2
    /\ doneBy[j1] = {"w1"} /\ rows[j1].status = "done"
    /\ doneBy[j2] = {"w2"} /\ rows[j2].status = "done"

(* ------------------------- claims: validation phase ---------------------- *)

\* C11 (as claimed): an authenticated request whose device key is not a key of the
\* device registry is answered with an input error (4xx) and asks the engine for
\* neither a context nor a navigation
C11_UnknownDeviceRejected ==
  (vpc = "done" /\ vin.token /\ vin.device \notin OwnDevices) =>
    /\ vout \in {400, 422}
    /\ vused = {}

C14_TerminalStatusKept ==
  [][\A j \in Jobs :
       rows[j].status \in {"done", "error"} => rows'[j].status = rows[j].status]_vars

C14_Witness ==
  \E j, k \in Jobs, w \in Workers :
    /\ j # k
    /\ rows[j].status = "done" /\ doneBy[j] = {w}
    /\ rows[k].status = "error" /\ errorBy[k] = {w}

\* C15: whatever the lease call returned, processJob is called, and a page is
\* navigated, only with a job that has an id, a url that looks like absolute
\* http(s) and a screenshot key; answers without a row, and rows without an id
\* or whose url is unusable even after the lookup by id, end in the idle sleep
C15_OnlyStrictJobsProcessed ==
  /\ npc \in {"processJob", "goto"} =>
       /\ nout.id # 0
       /\ nout.url = "abs"
       /\ nout.key \in {"given", "default"}
       /\ Unwraps(ndata) /\ nout.id = ndata.id
  /\ (npc # "claim" /\ (~Unwraps(ndata) \/ ndata.id = 0)) => npc \in {"claimed", "sleep"} /\ nout = NoJob
  /\ (npc # "claim" /\ Unwraps(ndata) /\ ndata.id # 0
        /\ coerceUrl(ndata.url) # "abs" /\ rows[ndata.id].url # "abs")
       => npc \in {"claimed", "sleep"} /\ nout = NoJob

C15_Witness ==
  /\ npc = "goto"
  /\ ndata.shape = "wrapper" /\ ndata.url = "rel" /\ ndata.key = "omitted"
  /\ nout.url = "abs" /\ nout.key = "default"

(* ---------------------------- claims: coverage --------------------------- *)
\* the grid cells a rect overlaps, stated on the geometry: cell (gx, gy) spans
\* [gx * cellW, (gx + 1) * cellW) x [gy * cellH, (gy + 1) * cellH)
Overlaps(c, r) ==
  LET gx == c % GRID_COLS
      gy == c \div GRID_COLS IN
  /\ r.x * GRID_COLS < (gx + 1) * VW /\ (r.x + r.w) * GRID_COLS > gx * VW
  /\ r.y * GRID_ROWS < (gy + 1) * VH /\ (r.y + r.h) * GRID_ROWS > gy * VH

CoveredCells(rects) ==
  {c \in 0..(GRID_ROWS * GRID_COLS - 1) : \E r \in rects : Overlaps(c, r)}

TaggedSubtree == {e \in Elems : AncestorsOrSelf(e) \cap tagged # {}}

InLandmark(e) == \E a \in AncestorsOrSelf(e) : dom[a].kind = "nav"

\* C18 (as claimed): the scan tags no element that is, or lies inside, a header
\* or navigation element, so such an element still has its boxes after the hide
\* step
C18_LandmarksNeverTagged ==
  \A e \in Elems :
    InLandmark(e) =>
      /\ e \notin tagged
      /\ ppc \in {"hidden", "audited"} => Rendered(e)

\* C19 (as claimed): firstCtaInFold is true exactly when some visible CTA has
\* its rect inside the viewport on all four sides
C19_CtaEntirelyInViewport ==
  ppc = "audited" =>
    (clean.firstCtaInFold <=>
       \E e \in Elems :
         LET r == dom[e].rect IN
         /\ isCta(e)
         /\ r.y >= 0 /\ r.x >= 0 /\ r.y + r.h <= VH /\ r.x + r.w <= VW)

(* --------------------------- claims: job producer ------------------------ *)
\* C20 (as claimed): by the time a request that passed validation is answered,
\* with a success or with an error, the service has inserted a queued job row
\* for it
C20_ValidatedRequestEnqueued ==
  \A r \in Reqs : pc[r] = "finally" => r \in enqueued

\* C21: in the response, visibleFoldCoveragePct is the fold coverage measured
\* before the overlays are hidden (foldCoveragePct being the one measured after).
C21_VisibleIsPreHideCoverage ==
  ppc = "audited" => clean.visibleFoldCoveragePct = CoverageBeforeHide

\* C22 (as claimed): a request with debugHeatmap=1 on which every engine call
\* succeeds (no call rejected, no watchdog fired) is answered with a success
\* payload that carries pngDebugBase64
C22_HeatmapRequestSucceeds ==
  \A r \in Reqs :
    (/\ pc[r] = "finally"
     /\ debugHeatmap[r]
     /\ scanOutcome[r] = "ok"
     /\ resp[r].error \notin {"engine error", "timeout"})
    => (resp[r].status = 200 /\ resp[r].pngDebugBase64)

\* C23 (as claimed): a worker never lets go of a job the lease call handed to it
\* without the row being done or error: not when normalization discards the
\* row, and not when the launch or the context/page creation fails (neither
\* path attempts an update, so no refusal by the store is involved)
C23_LeasedJobReachesTerminal ==
  [][\A w \in Workers : \A j \in Jobs :
       (/\ wpc'[w] = "sleep"
        /\ \/ wpc[w] = "claim" /\ w \in leasedTo'[j] \ leasedTo[j]
           \/ wpc[w] = "prepare" /\ job[w].id = j)
       => rows'[j].status \in {"done", "error"}]_vars

\* C24: a lease call that yields no job (no row, a discarded row, or an error
\* of the call) is followed by the poll sleep, and a lease call is only ever
\* issued at start-up, after a sleep or after a processed job: never two lease
\* calls back to back
C24_SleepBetweenLeaseCalls ==
  [][\A w \in Workers :
       /\ (ClaimIdle(w) \/ ClaimRow(w)) =>
            \/ wpc'[w] = "prepare" /\ job'[w] # NoJob
            \/ wpc'[w] = "sleep" /\ lastWait'[w] = "poll" /\ job'[w] = NoJob
       /\ (wpc[w] # "claim" /\ wpc'[w] = "claim") => wpc[w] \in {"sleep", "markDone"}]_vars

\* a worker is back at the lease call after an empty answer and its poll
\* sleep, and another after discarding a row the lease call handed to it
C24_Witness ==
  \E w, v \in Workers :
    /\ w # v
    /\ wpc[w] = "claim" /\ lastWait[w] = "poll" /\ \A j \in Jobs : w \notin leasedTo[j]
    /\ wpc[v] = "claim" /\ lastWait[v] = "poll"
    /\ \E j \in Jobs : v \in leasedTo[j] /\ rows[j].status = "queued"

\* C25: a row is done only when the screenshot of its job was captured and
\* stored in the object store, and it then carries the public address of that
\* object; a step that fails the capture or the upload never sets done
C25_DoneOnlyAfterUpload ==
  \A j \in Jobs :
    rows[j].status = "done" =>
      \E k \in bucket : k[1] = j /\ rows[j].screenshot_url = getPublicUrl(k)

\* one job is done with its object stored, while the capture or upload of
\* another failed and left it in error without an object
C25_Witness ==
  \E j, k \in Jobs :
    /\ rows[j].status = "done" /\ ObjectKey([id |-> j, key |-> "default"]) \in bucket
    /\ rows[j].screenshot_url = getPublicUrl(<<j, "default">>)
    /\ rows[k].status = "error" /\ \A o \in bucket : o[1] # k

\* C26 (as claimed): a scan failure that is not a timeout fails the request,
\* and an answered request carries preHideTimedOut = true only when its scan
\* timed out (its own deadline or the handler's watchdog)
C26_RealScanErrorPropagates ==
  \A r \in Reqs :
    pc[r] = "finally" =>
      /\ scanOutcome[r] = "error" => resp[r].status \notin {0, 200}
      /\ resp[r].preHideTimedOut => scanOutcome[r] \in {"timeout", "watchdog"}

\* C27 (as claimed): for rects of positive width and height, rasterizeToGrid
\* returns exactly the cells that have a positive-area intersection with some
\* rect (a cell a rect only touches along an edge is not covered), all inside
\* the grid, and equal to the union of the cells of each rect alone
C27_RasterIsExactOverlap ==
  LET rects == {r \in allRects : r.w > 0 /\ r.h > 0} IN
  /\ rasterizeToGrid(rects) = CoveredCells(rects)
  /\ rasterizeToGrid(rects) \subseteq 0..(GRID_ROWS * GRID_COLS - 1)
  /\ rasterizeToGrid(rects) = UNION {rasterizeToGrid({r}) : r \in rects}

\* C28 (as claimed): once the hide step has run, the elements carrying the
\* attribute its rule hides are as many as the scan reported to the handler in
\* overlayElemsMarked; when the scan soft-failed and zero overlays are reported,
\* no element of the page is hidden
C28_HiddenAreTheReported ==
  ppc \in {"hidden", "audited"} =>
    /\ Cardinality(HiddenByRule) = marked
    /\ marked = 0 => \A e \in Elems : Rendered(e)

\* C29 (as claimed): a job whose device is a key of the render service's
\* registry is captured by the worker in a context created with the profile
\* (viewport, pixel ratio, user agent) the render service has for that key
C29_WorkerUsesRenderProfile ==
  (npc = "goto" /\ nout.device \in OwnDevices) => nctx = RenderProfile(nout.device)

\* C30: the promise withTimeout returns settles once and keeps its outcome: the
\* passed promise's own value or error when that settled first, the timer then
\* being cancelled; otherwise the rejection with status 504 and the call's
\* label.  A later settlement of the passed promise changes nothing and leaves
\* no rejection without a handler.
C30_WithTimeoutSettlesOnce ==
  /\ [](\A c \in Calls :
          /\ wt[c].timer = "cleared" =>
               wt[c].p \in {"fulfilled", "rejected"} /\ wt[c].out = OwnOutcome(wt[c].p)
          /\ wt[c].timer = "fired" =>
               wt[c].out = [kind |-> "timeout", status |-> 504, label |-> wt[c].label]
          /\ wt[c].out.kind \in {"value", "error"} => wt[c].timer = "cleared"
          /\ wt[c].out.kind = "pending" => wt[c].timer \in {"none", "armed"}
          /\ wt[c].unhandled = {})
  /\ [][\A c \in Calls : wt[c].out.kind # "pending" => wt'[c].out = wt[c].out]_vars

\* one call timed out and its promise was rejected afterwards; another got its
\* promise's value in time and its timer was cancelled
C30_Witness ==
  /\ wt["c1"].out.kind = "timeout" /\ wt["c1"].p = "rejected" /\ wt["c1"].label = "page.goto"
  /\ wt["c2"].out.kind = "value" /\ wt["c2"].timer = "cleared"

====
